---- MODULE Spec2Model ----
(***************************************************************************)
(* Section-boundary detection and slicing of 10-K filings                  *)
(* (etl_10k/text/segment.py, etl_10k/text/segment_fallback.py,             *)
(* tools/segment_single_filing.py).                                        *)
(*                                                                         *)
(* A document is a sequence of lines; a line is a sequence of characters   *)
(* (one-character strings; "nbsp" stands for U+00A0).  The cleaned filing  *)
(* is written by "\n".join(lines), so every line but the last is followed  *)
(* by one newline character.  The last step of the cleaner splits at every *)
(* line boundary str.splitlines knows and joins with "\n"                  *)
(* (clean.py, merge_item_number_with_suffix), so text.splitlines() of the  *)
(* scanner and the file iteration of the slicer number the lines of a      *)
(* cleaned filing alike.                                                   *)
(***************************************************************************)
EXTENDS Integers, Sequences, FiniteSets, Bags, TLC

(* ----------------------------- characters ------------------------------ *)

Digits == <<"0", "1", "2", "3", "4", "5", "6", "7", "8", "9">>

LowerCase == <<"a", "b", "c", "d", "e", "f", "g", "h", "i", "j", "k", "l", "m",
               "n", "o", "p", "q", "r", "s", "t", "u", "v", "w", "x", "y", "z">>

UpperCase == <<"A", "B", "C", "D", "E", "F", "G", "H", "I", "J", "K", "L", "M",
               "N", "O", "P", "Q", "R", "S", "T", "U", "V", "W", "X", "Y", "Z">>

Range(s) == {s[i] : i \in DOMAIN s}

isdigit(ch) == ch \in Range(Digits)

isalpha(ch) == ch \in Range(LowerCase) \cup Range(UpperCase)

\* \s of the re module on str patterns: Unicode whitespace, U+00A0 included
isspace(ch) == ch \in {" ", "\t", "nbsp"}

\* \w of the re module
isword(ch) == isdigit(ch) \/ isalpha(ch) \/ ch = "_"

upper(ch) ==
    IF ch \in Range(LowerCase)
    THEN UpperCase[CHOOSE i \in DOMAIN LowerCase : LowerCase[i] = ch]
    ELSE ch

lower(ch) ==
    IF ch \in Range(UpperCase)
    THEN LowerCase[CHOOSE i \in DOMAIN UpperCase : UpperCase[i] = ch]
    ELSE ch

str_upper(s) == [i \in DOMAIN s |-> upper(s[i])]

str_lower(s) == [i \in DOMAIN s |-> lower(s[i])]

\* int(c) of one digit character
DigitVal(ch) == (CHOOSE i \in DOMAIN Digits : Digits[i] = ch) - 1

\* int(s) of a non-empty string of digits
RECURSIVE int(_)
int(s) ==
    IF Len(s) = 0 THEN 0
    ELSE 10 * int(SubSeq(s, 1, Len(s) - 1)) + DigitVal(s[Len(s)])

\* str(n) for 0 <= n <= 99
str(n) == IF n < 10 THEN <<Digits[n + 1]>> ELSE <<Digits[(n \div 10) + 1], Digits[(n % 10) + 1]>>

\* the subsequence of s at the positions of the set idx, in order
RECURSIVE Pick(_, _)
Pick(s, idx) ==
    IF idx = {} THEN <<>>
    ELSE LET m == CHOOSE i \in idx : \A j \in idx : j <= i
         IN  Append(Pick(s, idx \ {m}), s[m])

(* ------------------------- segment.py helpers -------------------------- *)

\* _normalize_ws: nbsp variants to spaces, whitespace runs to one space, strip
normalize_ws(s) ==
    LET t == [i \in DOMAIN s |-> IF isspace(s[i]) THEN " " ELSE s[i]]
        keep == {i \in DOMAIN t :
                    t[i] # " "
                    \/ (/\ i > 1 /\ t[i - 1] # " "
                        /\ \E j \in DOMAIN t : j > i /\ t[j] # " ")}
    IN  Pick(t, keep)

\* before_dot: everything before the first '.', or the string unchanged
before_dot(s) ==
    LET dots == {i \in DOMAIN s : s[i] = "."}
    IN  IF dots = {} THEN s
        ELSE SubSeq(s, 1, (CHOOSE i \in dots : \A j \in dots : i <= j) - 1)

\* re.sub(r'\([^)]*\)\.', '.', s) scanning from position i: leftmost,
\* non-overlapping matches of "(" [^)]* ")" "." are replaced by "."
RECURSIVE sub_parens(_, _)
sub_parens(s, i) ==
    IF i > Len(s) THEN <<>>
    ELSE LET closes == {j \in (i + 1)..Len(s) : s[j] = ")"}
             j == CHOOSE c \in closes : \A d \in closes : c <= d
         IN  IF s[i] = "(" /\ closes # {} /\ j < Len(s) /\ s[j + 1] = "."
             THEN <<".">> \o sub_parens(s, j + 2)
             ELSE <<s[i]>> \o sub_parens(s, i + 1)

\* re.sub(r'[^A-Za-z0-9]+$', '', s)
strip_trailing_nonalnum(s) ==
    LET alnum == {i \in DOMAIN s : isdigit(s[i]) \/ isalpha(s[i])}
    IN  IF alnum = {} THEN <<>>
        ELSE SubSeq(s, 1, CHOOSE i \in alnum : \A j \in alnum : j <= i)

clean_item_number(s) == strip_trailing_nonalnum(sub_parens(s, 1))

\* s.split()[0] of a string that does not start with whitespace
first_token(s) ==
    LET sp == {i \in DOMAIN s : isspace(s[i])}
    IN  IF sp = {} THEN s
        ELSE SubSeq(s, 1, (CHOOSE i \in sp : \A j \in sp : i <= j) - 1)

\* HEAD_RE.match(line).group('rest'), or <<>> when the line does not match:
\* ^\s*(items?)\b\s*([0-9].*)$ with re.IGNORECASE
HEAD_RE(line) ==
    LET ws == {i \in DOMAIN line : ~isspace(line[i])}
        b == IF ws = {} THEN Len(line) + 1 ELSE CHOOSE i \in ws : \A j \in ws : i <= j
        isItem == /\ b + 3 <= Len(line)
                  /\ str_lower(SubSeq(line, b, b + 3)) = <<"i", "t", "e", "m">>
        \* greedy s?; backing off to "item" leaves the s a word character, so \b fails
        e == IF isItem /\ b + 4 <= Len(line) /\ lower(line[b + 4]) = "s" THEN b + 5 ELSE b + 4
        boundary == e > Len(line) \/ ~isword(line[e])
        nws == {i \in e..Len(line) : ~isspace(line[i])}
        r == IF nws = {} THEN Len(line) + 1 ELSE CHOOSE i \in nws : \A j \in nws : i <= j
    IN  IF isItem /\ boundary /\ r <= Len(line) /\ isdigit(line[r])
        THEN SubSeq(line, r, Len(line))
        ELSE <<>>

\* the item_num that item_dict_builder derives from a matched label
item_num_of(label) ==
    str_upper(before_dot(first_token(normalize_ws(clean_item_number(label)))))

(* --------------------------- HeadingScanner ---------------------------- *)

\* the rows appended to `out` (lines 51-66): one per qualifying line, in line order
scan_rows(doc) ==
    LET rest(i) == HEAD_RE(normalize_ws(doc[i]))
        heads == {i \in DOMAIN doc : normalize_ws(doc[i]) # <<>> /\ rest(i) # <<>>}
        row == [i \in DOMAIN doc |-> IF i \in heads
                                      THEN [item_num |-> item_num_of(rest(i)), item_line |-> i]
                                      ELSE [item_num |-> <<>>, item_line |-> i]]
    IN  Pick(row, heads)

\* item_dict_builder without lines 68-75: every row is kept
dedupe_keeps_all(out) == out

\* "dedupe consecutive duplicates" (lines 69-75): a row is kept unless its key
\* equals the key of the row before it
dedupe(out) ==
    Pick(out, {j \in DOMAIN out :
                  j = 1 \/ str_lower(out[j].item_num) # str_lower(out[j - 1].item_num)})

item_dict_builder(doc) == dedupe(scan_rows(doc))

(* ---------------------------- RoundEstimator --------------------------- *)

NOISE_CUTOFF == 20

Max(list) == CHOOSE m \in Range(list) : \A x \in Range(list) : x <= m

\* list.remove(v): the list without its first element equal to v
list_remove(list, v) ==
    LET k == CHOOSE i \in DOMAIN list : list[i] = v /\ \A j \in DOMAIN list : list[j] = v => i <= j
    IN  SubSeq(list, 1, k - 1) \o SubSeq(list, k + 1, Len(list))

\* Counter(list)[v]
count_of(list, v) == Cardinality({i \in DOMAIN list : list[i] = v})

\* the digits of every item_num, as integers (lines 88-92)
listAllItems(items) ==
    [k \in DOMAIN items |->
        int(Pick(items[k].item_num,
                 {i \in DOMAIN items[k].item_num : isdigit(items[k].item_num[i])}))]

\* number_of_rounds without the loop of lines 95-96: nothing is dropped
drop_noise_keeps_all(list) == [raised |-> list = <<>>, list |-> list]

\* while max(listAllItems) > 20: listAllItems.remove(max(listAllItems))
\* max() of an empty list raises ValueError: the result is then "raised"
RECURSIVE drop_noise(_)
drop_noise(list) ==
    IF list = <<>> THEN [raised |-> TRUE, list |-> <<>>]
    ELSE IF Max(list) > NOISE_CUTOFF THEN drop_noise(list_remove(list, Max(list)))
    ELSE [raised |-> FALSE, list |-> list]

\* the value of greatest multiplicity, the one met last among equals
most_common_last(top_counts) ==
    LET mult(k) == Cardinality({j \in DOMAIN top_counts : top_counts[j] = top_counts[k]})
        best == CHOOSE k \in DOMAIN top_counts :
                    /\ \A j \in DOMAIN top_counts : mult(j) <= mult(k)
                    /\ \A j \in DOMAIN top_counts : mult(j) = mult(k) => j <= k
    IN  top_counts[best]

\* Counter(top_counts).most_common(1)[0][0]: the value of greatest multiplicity,
\* the one met first among equals
most_common(top_counts) ==
    LET mult(k) == Cardinality({j \in DOMAIN top_counts : top_counts[j] = top_counts[k]})
        best == CHOOSE k \in DOMAIN top_counts :
                    /\ \A j \in DOMAIN top_counts : mult(j) <= mult(k)
                    /\ \A j \in DOMAIN top_counts : mult(j) = mult(k) => k <= j
    IN  top_counts[best]

\* number_of_rounds(item_dict, bool): [raised, rounds, last_ele]; the caller
\* takes rounds (bool = True) or last_ele (bool = False)
number_of_rounds(items) ==
    LET kept == drop_noise(listAllItems(items))
        nums == kept.list
        max_num == Max(nums)
        top_counts == [i \in 1..4 |-> count_of(nums, max_num - (i - 1))]
    IN  IF kept.raised
        THEN [raised |-> TRUE, rounds |-> 0, last_ele |-> 0]
        ELSE [raised |-> FALSE,
              rounds |-> most_common(top_counts),
              last_ele |-> IF count_of(nums, max_num) >= count_of(nums, max_num - 1)
                           THEN max_num ELSE max_num - 1]

(* ------------------------ TableOfContentsBuilder ----------------------- *)

FixedTableContent ==
    << <<"1">>, <<"1", "A">>, <<"1", "B">>, <<"1", "C">>, <<"1", "D">>, <<"2">>, <<"3">>,
       <<"4">>, <<"5">>, <<"6">>, <<"7">>, <<"7", "A">>, <<"8">> >>

letters_tuple == << <<>>, <<"A">>, <<"B">>, <<"C">> >>

\* table_content_builder given last_ele (lines 123-130)
table_content(last_ele) ==
    LET first == int(FixedTableContent[Len(FixedTableContent)]) + 1
        extra == IF last_ele < first THEN 0 ELSE (last_ele - first + 1) * Len(letters_tuple)
    IN  FixedTableContent \o
        [k \in 1..extra |-> str(first + ((k - 1) \div Len(letters_tuple)))
                            \o letters_tuple[((k - 1) % Len(letters_tuple)) + 1]]

(* -------------------------- CandidateSetBuilder ------------------------ *)

\* the last row of item_dict with this label and a line beyond last_ele, or 0
last_match(items, itemTC, last_ele) ==
    LET hits == {k \in DOMAIN items :
                    items[k].item_num = itemTC /\ items[k].item_line > last_ele}
    IN  IF hits = {} THEN 0 ELSE CHOOSE k \in hits : \A j \in hits : j <= k

\* the first row of item_dict with this label and a line beyond last_ele, or 0
first_match(items, itemTC, last_ele) ==
    LET hits == {k \in DOMAIN items :
                    items[k].item_num = itemTC /\ items[k].item_line > last_ele}
    IN  IF hits = {} THEN 0 ELSE CHOOSE k \in hits : \A j \in hits : k <= j

\* one round of the primary builder, from entry n of tableContent on (lines 167-172)
RECURSIVE primary_round(_, _, _, _, _)
primary_round(table, items, n, lines, last_ele) ==
    IF n > Len(table) THEN [lines |-> lines, last_ele |-> last_ele]
    ELSE LET k == first_match(items, table[n], last_ele)
         IN  IF k = 0
             THEN primary_round(table, items, n + 1, lines, last_ele)
             ELSE primary_round(table, items, n + 1,
                                Append(lines, items[k]), items[k].item_line)

\* the rounds of the primary builder with last_ele set to 0 before every round
RECURSIVE primary_rounds_reset(_, _, _, _, _)
primary_rounds_reset(table, items, todo, candidates, last_ele) ==
    IF todo <= 0 THEN candidates
    ELSE LET r == primary_round(table, items, 1, <<>>, 0)
         IN  primary_rounds_reset(table, items, todo - 1, Append(candidates, r.lines), 0)

\* the rounds of the primary builder, last_ele carried from round to round (lines 162-173)
RECURSIVE primary_rounds(_, _, _, _, _)
primary_rounds(table, items, todo, candidates, last_ele) ==
    IF todo <= 0 THEN candidates
    ELSE LET r == primary_round(table, items, 1, <<>>, last_ele)
         IN  primary_rounds(table, items, todo - 1,
                            Append(candidates, r.lines), r.last_ele)

(* ------------------------ FallbackCandidateBuilder --------------------- *)

\* Counter(r['item_num'] for r in item_dict)[label]
item_counts(items, label) ==
    Cardinality({k \in DOMAIN items : items[k].item_num = label})

\* last_ele advanced at every match, as in the primary builder
fallback_last_ele_always(items, nrounds, r, last_ele) == r.item_line

\* last_ele after the match r (segment_fallback.py lines 36-37)
fallback_last_ele(items, nrounds, r, last_ele) ==
    IF item_counts(items, r.item_num) >= nrounds THEN r.item_line ELSE last_ele

\* one round of the fallback builder: last_ele advances only for a label that
\* occurs at least `rounds` times (segment_fallback.py lines 32-38)
RECURSIVE fallback_round(_, _, _, _, _, _)
fallback_round(table, items, nrounds, n, lines, last_ele) ==
    IF n > Len(table) THEN [lines |-> lines, last_ele |-> last_ele]
    ELSE LET k == first_match(items, table[n], last_ele)
         IN  IF k = 0
             THEN fallback_round(table, items, nrounds, n + 1, lines, last_ele)
             ELSE fallback_round(table, items, nrounds, n + 1,
                                 Append(lines, items[k]),
                                 fallback_last_ele(items, nrounds, items[k], last_ele))

RECURSIVE fallback_rounds(_, _, _, _, _, _)
fallback_rounds(table, items, nrounds, todo, candidates, last_ele) ==
    IF todo <= 0 THEN candidates
    ELSE LET r == fallback_round(table, items, nrounds, 1, <<>>, last_ele)
         IN  fallback_rounds(table, items, nrounds, todo - 1,
                             Append(candidates, r.lines), r.last_ele)

\* fallback_build_candidates on a file whose headings number_of_rounds accepts
fallback_build_candidates(doc) ==
    LET items == item_dict_builder(doc)
        est == number_of_rounds(items)
    IN  fallback_rounds(table_content(est.last_ele), items, est.rounds, est.rounds, <<>>, 0)

\* all(not cand for cand in list_lines) of a non-empty list
all_empty(candidates) ==
    candidates # <<>> /\ \A i \in DOMAIN candidates : candidates[i] = <<>>

\* any(not cand for cand in list_lines)
any_empty(candidates) == \E i \in DOMAIN candidates : candidates[i] = <<>>

(* --------------------------- CandidateSelector ------------------------- *)

\* the loop of _append_orphans without its `seen` set: a label met twice after
\* last_line is appended twice
RECURSIVE orphan_loop_unseen(_, _, _, _, _, _)
orphan_loop_unseen(selected, items, last_line, selected_nums, seen, k) ==
    IF k > Len(items) THEN selected
    ELSE LET r == items[k]
         IN  IF r.item_line > last_line /\ r.item_num \notin selected_nums
             THEN orphan_loop_unseen(Append(selected, r), items, last_line, selected_nums,
                                     seen, k + 1)
             ELSE orphan_loop_unseen(selected, items, last_line, selected_nums, seen, k + 1)

\* the loop of _append_orphans without its `selected_nums` test: a heading after
\* last_line is appended even when the candidate holds its label
RECURSIVE orphan_loop_any_label(_, _, _, _, _, _)
orphan_loop_any_label(selected, items, last_line, selected_nums, seen, k) ==
    IF k > Len(items) THEN selected
    ELSE LET r == items[k]
         IN  IF r.item_line > last_line /\ r.item_num \notin seen
             THEN orphan_loop_any_label(Append(selected, r), items, last_line, selected_nums,
                                        seen \cup {r.item_num}, k + 1)
             ELSE orphan_loop_any_label(selected, items, last_line, selected_nums, seen,
                                        k + 1)

\* the loop of _append_orphans from row k of item_dict on (lines 142-145)
RECURSIVE orphan_loop(_, _, _, _, _, _)
orphan_loop(selected, items, last_line, selected_nums, seen, k) ==
    IF k > Len(items) THEN selected
    ELSE LET r == items[k]
         IN  IF /\ r.item_line > last_line
                /\ r.item_num \notin selected_nums
                /\ r.item_num \notin seen
             THEN orphan_loop(Append(selected, r), items, last_line, selected_nums,
                              seen \cup {r.item_num}, k + 1)
             ELSE orphan_loop(selected, items, last_line, selected_nums, seen, k + 1)

\* _select_best_candidate returning the candidate as it is, no orphan appended
append_orphans_none(selected, items) == selected

\* _append_orphans without lines 137-138: with nothing selected every label of
\* item_dict is appended at its first row
append_orphans_from_nothing(selected, items) ==
    orphan_loop(selected, items, 0, {selected[i].item_num : i \in DOMAIN selected}, {}, 1)

\* _append_orphans (lines 132-146)
append_orphans(selected, items) ==
    IF selected = <<>> THEN selected
    ELSE orphan_loop(selected, items, selected[Len(selected)].item_line,
                     {selected[i].item_num : i \in DOMAIN selected}, {}, 1)

\* len(line) of the lines of text.splitlines(keepends=True): every line but the
\* last carries its newline
line_len(doc, i) == Len(doc[i]) + (IF i < Len(doc) THEN 1 ELSE 0)

\* the sum of line_len over lines lo..hi
RECURSIVE chars_between(_, _, _)
chars_between(doc, lo, hi) ==
    IF lo > hi THEN 0
    ELSE IF lo = hi THEN line_len(doc, lo)
    ELSE LET mid == (lo + hi) \div 2
         IN  chars_between(doc, lo, mid) + chars_between(doc, mid + 1, hi)

\* _line_start_offsets(text)[k], k a 0-based line index
line_start_char(doc, k) == chars_between(doc, 1, k)

normalize_line_index(item_line, num_lines) ==
    IF 1 <= item_line /\ item_line <= num_lines THEN item_line - 1
    ELSE LET m == IF item_line < num_lines - 1 THEN item_line ELSE num_lines - 1
         IN  IF m > 0 THEN m ELSE 0

\* span_chars of a non-empty candidate (lines 230-233)
span_chars(doc, cand) ==
    line_start_char(doc, normalize_line_index(cand[Len(cand)].item_line, Len(doc)))
    - line_start_char(doc, normalize_line_index(cand[1].item_line, Len(doc)))

\* the scoring loop with >= for > on line 235: among equal spans the last wins
RECURSIVE best_loop_last_wins(_, _, _, _, _)
best_loop_last_wins(doc, candidates, i, best, best_span) ==
    IF i >= Len(candidates) THEN best
    ELSE LET span == span_chars(doc, candidates[i + 1])
         IN  IF best_span = <<>> \/ span >= best_span[1]
             THEN best_loop_last_wins(doc, candidates, i + 1, i, <<span>>)
             ELSE best_loop_last_wins(doc, candidates, i + 1, best, best_span)

\* the scoring loop (lines 220-237) from candidate i (0-based) on; best_span
\* is <<>> for float("-inf"); the result is best_i, 0-based
RECURSIVE best_loop(_, _, _, _, _)
best_loop(doc, candidates, i, best, best_span) ==
    IF i >= Len(candidates) THEN best
    ELSE LET span == span_chars(doc, candidates[i + 1])
         IN  IF best_span = <<>> \/ span > best_span[1]
             THEN best_loop(doc, candidates, i + 1, i, <<span>>)
             ELSE best_loop(doc, candidates, i + 1, best, best_span)

\* a selector that returns an empty sequence for an empty list_lines
select_first_or_nothing(candidates, items, doc) ==
    IF candidates = <<>> \/ any_empty(candidates)
    THEN [raised |-> FALSE, best_i |-> 0, selected |-> <<>>]
    ELSE [raised |-> FALSE, best_i |-> 0, selected |-> append_orphans(candidates[1], items)]

\* _select_best_candidate: [raised, best_i, selected]; cand[0] of an empty
\* candidate (line 230) and list_lines[0] of an empty list (line 239) raise
\* IndexError
select_best_candidate(candidates, items, doc) ==
    IF Len(candidates) = 1
    THEN [raised |-> FALSE, best_i |-> 0,
          selected |-> append_orphans(candidates[1], items)]
    ELSE IF candidates = <<>> \/ any_empty(candidates)
    THEN [raised |-> TRUE, best_i |-> 0, selected |-> <<>>]
    ELSE LET best == best_loop(doc, candidates, 0, 0, <<>>)
         IN  [raised |-> FALSE, best_i |-> best,
              selected |-> append_orphans(candidates[best + 1], items)]

\* _build_candidates: the list_lines it returns
build_candidates(doc) ==
    LET items == item_dict_builder(doc)
        est == number_of_rounds(items)
        primary == primary_rounds(table_content(est.last_ele), items, est.rounds, <<>>, 0)
    IN  IF any_empty(primary) THEN fallback_build_candidates(doc) ELSE primary

\* item_segmentation_list: [raised, selected]
item_segmentation_list(doc) ==
    IF number_of_rounds(item_dict_builder(doc)).raised
    THEN [raised |-> TRUE, best_i |-> 0, selected |-> <<>>]
    ELSE select_best_candidate(build_candidates(doc), item_dict_builder(doc), doc)

(* ----------------------------- DocumentSlicer -------------------------- *)

Min(S) == CHOOSE m \in S : \A x \in S : m <= x

\* page_list with the number of lines for the terminal boundary
page_list_short(segmentation, num_lines) ==
    [n \in 1..(Len(segmentation) + 1) |->
        IF n <= Len(segmentation) THEN segmentation[n].item_line ELSE num_lines]

\* page_list of print_items (lines 286-290)
page_list_of(segmentation, num_lines) ==
    [n \in 1..(Len(segmentation) + 1) |->
        IF n <= Len(segmentation) THEN segmentation[n].item_line ELSE num_lines + 1]

\* islice with the stop line included
islice_lines_closed(num_lines, start, end) ==
    {l \in 1..num_lines : start <= l /\ l <= end}

\* the 1-based numbers of the lines list(islice(f, start - 1, end - 1)) yields
islice_lines(num_lines, start, end) ==
    {l \in 1..num_lines : start <= l /\ l < end}

\* the chunk print_items writes for entry n (lines 296-301)
chunk_of(doc, segmentation, n) ==
    LET pages == page_list_of(segmentation, Len(doc))
    IN  [item_num |-> segmentation[n].item_num,
         start |-> pages[n],
         end |-> pages[n + 1],
         lines |-> islice_lines(Len(doc), pages[n], pages[n + 1])]

\* open(output_dir / f"item{item_num}.txt", "w") raises FileNotFoundError when
\* the label holds a path separator: the directory it names does not exist
open_raises(item_num) == "/" \in Range(item_num)

\* the entries written before the loop of lines 296-305 ends or raises
writable_prefix(segmentation) ==
    LET bad == {n \in DOMAIN segmentation : open_raises(segmentation[n].item_num)}
    IN  IF bad = {} THEN Len(segmentation) ELSE Min(bad) - 1

\* a write of output_dir / item<label>.txt: the file of that name is replaced
write_file(files, chunk) == {g \in files : g.item_num # chunk.item_num} \cup {chunk}

\* the files of output_dir after the first k turns of the loop of lines 296-305
RECURSIVE write_chunks(_, _, _, _)
write_chunks(files, doc, segmentation, k) ==
    IF k = 0 THEN files
    ELSE write_file(write_chunks(files, doc, segmentation, k - 1),
                    chunk_of(doc, segmentation, k))

(* ------------------------------ documents ------------------------------ *)

\* the longest document of the exhaustive part of the input space
MaxLines == 4

TextLine == <<"x">>

Item1 == <<"I", "t", "e", "m", " ", "1", ".">>

Item1A == <<"I", "t", "e", "m", " ", "1", "A", ".">>

Item2 == <<"I", "t", "e", "m", " ", "2", ".">>

Item2A == <<"I", "t", "e", "m", " ", "2", "A", ".">>

Item21 == <<"I", "t", "e", "m", " ", "2", "1">>

LineKinds == {TextLine, Item1, Item1A, Item2, Item2A}

BoundedDocs == UNION {[1..n -> LineKinds] : n \in 0..MaxLines}

\* a document of n lines of running text with the given heading lines
Filled(n, heads) == [i \in 1..n |-> IF i \in DOMAIN heads THEN heads[i] ELSE TextLine]

Item1Business ==
    <<"I", "t", "e", "m", " ", "1", ".", " ", "B", "u", "s", "i", "n", "e", "s", "s">>

Item1ARiskFactors ==
    <<"I", "t", "e", "m", " ", "1", "A", ".", " ", "R", "i", "s", "k", " ",
      "F", "a", "c", "t", "o", "r", "s">>

Item2Properties ==
    <<"I", "t", "e", "m", " ", "2", ".", " ", "P", "r", "o", "p", "e", "r", "t", "i", "e", "s">>

\* Scenario 1: headings at lines 5, 40 and 120, no duplication
Scenario1Docs ==
    {Filled(n, 5 :> Item1Business @@ 40 :> Item1ARiskFactors @@ 120 :> Item2Properties) :
        n \in {120, 125}}

\* Scenario 2: a table-of-contents pass at lines 3, 4, 5 and the body pass at
\* lines 50, 300 and 900
Scenario2Docs ==
    {Filled(n, 3 :> Item1 @@ 4 :> Item1A @@ 5 :> Item2
               @@ 50 :> Item1 @@ 300 :> Item1A @@ 900 :> Item2) : n \in {900, 905}}

ItemNN(d, e) == <<"I", "t", "e", "m", " ", d, e, ".">>

Item16 == ItemNN("1", "6")

\* the longest run of lines after item 16 in the documents of Scenario 3
MaxTail == 3

\* the lines that may follow item 16: text, a heading of the canonical list, a
\* heading outside it, item 16 again, a heading above the noise cutoff
TailKinds == {TextLine, Item1, Item2A, Item16, Item21}

\* Scenario 3: items 13, 14, 15 in a table of contents and in the body, then
\* item 16, in the body only, then at most MaxTail lines of TailKinds
Scenario3Docs ==
    LET base == <<ItemNN("1", "3"), ItemNN("1", "4"), ItemNN("1", "5"),
                  ItemNN("1", "3"), TextLine, ItemNN("1", "4"), TextLine, ItemNN("1", "5"),
                  TextLine, Item16>>
    IN  {base \o tail :
            tail \in UNION {[1..n -> TailKinds] : n \in 0..MaxTail}}

Item3Slash4 == <<"I", "t", "e", "m", " ", "3", "/", "4", ".">>

\* a document with a heading whose label cannot be part of a file name
SlashDocs == {<<Item1, Item2, Item3Slash4>>}

\* documents with headings above the noise cutoff
NoiseDocs == UNION {[1..n -> {Item1, Item2, Item21}] : n \in 1..3}

Item3A == <<"I", "t", "e", "m", " ", "3", "A", ".">>

\* the longest document of headings outside the canonical list
MaxOffTable == 4

\* documents whose headings, but for item 1, are outside the canonical list
OffTableDocs == UNION {[1..n -> {Item1, Item2A, Item3A}] : n \in 1..MaxOffTable}

\* documents with a label that has digits after its leading run of digits:
\* "Item 1-2." and "Item 2-1."
MixedDigitDocs ==
    LET Item1Dash2 == <<"I", "t", "e", "m", " ", "1", "-", "2", ".">>
        Item2Dash1 == <<"I", "t", "e", "m", " ", "2", "-", "1", ".">>
    IN  {<<Item1Dash2, Item2>>, <<Item1, Item2Dash1, Item2>>}

Docs ==
    BoundedDocs \cup Scenario1Docs \cup Scenario2Docs \cup Scenario3Docs \cup SlashDocs
    \cup NoiseDocs \cup OffTableDocs \cup MixedDigitDocs

(* -------------------------- the batch of filings ----------------------- *)

\* try_exercize(ciks): the list of CIKs handed to the batch
ciks == <<"c1", "c2">>

CIKs == Range(ciks)

\* the accession directories a CIK directory of cleaned filings holds
Filings == {"f1", "f2"}

\* cleaned filings of the batch: one that is segmented and sliced, one without
\* headings, one whose round count is 0, one whose slicing fails
BatchDocs == {<<TextLine, Item1, Item2>>, <<TextLine>>, <<Item1>>, <<Item1, Item2, Item3Slash4>>}

\* INTERIM_CLEANED_DIR / cik / '10-K' does not exist
NoDir == [exists |-> FALSE, filings |-> [f \in Filings |-> <<>>]]

\* item_segmentation_list(filepath) on each cleaned filing of the batch
segmentation_of == [d \in BatchDocs |-> item_segmentation_list(d)]

CleanedDirs == {NoDir} \cup {[exists |-> TRUE, filings |-> d] : d \in [Filings -> BatchDocs]}

\* the greatest worker count of the pool
MaxWorkers == 2

\* the greatest number of calls of try_exercize on the same directories
MaxRuns == 2

(* ------------- edgar/clean_downloader.py: files and directories -------- *)

\* verify_cleaned_file: min_size_bytes (line 27)
MIN_SIZE_BYTES == 1000

\* verify_cleaned_file: the least length of the stripped sample (line 62)
MIN_SAMPLE_LEN == 50

\* the clean_worker threads started: MAX_WORKERS of config.py
MaxCleaners == 2

\* config.py: MAX_WORKERS_DOWNLOADS
MAX_WORKERS_DOWNLOADS == 15

\* a path that names no file. size is st_size; sample is len(sample.strip())
\* of the first 100 characters
NoFile == [exists |-> FALSE, decodes |-> FALSE, size |-> 0, sample |-> 0]

\* a raw full-submission.txt; decodes is whether it reads as UTF-8, size and
\* sample are those of the text cleaning_items(clean_html(...)) makes of it
RawFilings ==
    {[exists |-> TRUE, decodes |-> TRUE, size |-> 5000, sample |-> 100],
     [exists |-> TRUE, decodes |-> TRUE, size |-> MIN_SIZE_BYTES - 1, sample |-> 100],
     [exists |-> TRUE, decodes |-> TRUE, size |-> MIN_SIZE_BYTES, sample |-> MIN_SAMPLE_LEN - 1],
     [exists |-> TRUE, decodes |-> TRUE, size |-> MIN_SIZE_BYTES, sample |-> MIN_SAMPLE_LEN],
     [exists |-> TRUE, decodes |-> FALSE, size |-> 0, sample |-> 0]}

\* RAW_EDGAR_DIR / padded_cik / '10-K' does not exist
NoRawDir == [exists |-> FALSE, filings |-> [f \in Filings |-> NoFile]]

\* the 10-K directories download_for_cik leaves behind when it returns "ok"
RawDirs ==
    {NoRawDir}
    \cup {[exists |-> TRUE, filings |-> [f \in Filings |-> IF f = "f1" THEN r ELSE NoFile]] :
            r \in RawFilings \cup {NoFile}}
    \cup {[exists |-> TRUE, filings |-> [f \in Filings |-> r]] :
            r \in {x \in RawFilings : x.size > MIN_SIZE_BYTES}}

\* what download_for_cik(cik) returns and leaves on disk (downloader.py 18-42)
DownloadResults ==
    {[status |-> "ok", dir |-> d] : d \in RawDirs}
    \cup {[status |-> s, dir |-> NoRawDir] : s \in {"not_found", "error"}}

\* the poison pill of download_queue
None == [cik |-> "", accession |-> ""]

VARIABLES
    text,               \* the lines of full-submission.txt
    pc,                 \* the position in the body of the loop of print_items
    item_dict,          \* _build_candidates: item_dict
    tableContent,       \* _build_candidates: tableContent
    rounds,             \* _build_candidates: rounds
    list_lines,         \* _build_candidates: list_lines
    fallback_called,    \* whether fallback_build_candidates has run
    best_i,             \* _select_best_candidate: best_i (0-based)
    item_segmentation,  \* print_items: item_segmentation
    page_list,          \* print_items: page_list
    written,            \* the chunks written to output_dir, in the order written
    error,              \* the exception caught by print_items, "" when none
    filing_completed,   \* print_items: filing_completed
    filing_failed,      \* print_items: filing_failed
    loop_last_ele,      \* the builder loops: last_ele
    loop_lines,         \* the builder loops: lines
    loop_itemTC,        \* the builder loops: the position of itemTC in tableContent
    cleaned_dir,        \* INTERIM_CLEANED_DIR: cik -> its 10-K directory
    items_dir,          \* INTERIM_ITEMS_DIR: cik -> filing -> output directory
    max_workers,        \* MAX_WORKERS of the pool
    task,               \* the print_items task of each cik
    driver_pc,          \* try_exercize: "collecting" or "summary"
    collected,          \* the futures as_completed has yielded
    ciks_completed,     \* try_exercize counters
    ciks_failed,
    total_filings,
    filings_completed,
    filings_failed,
    runs,               \* the number of calls of try_exercize so far
    keep_raw,           \* download_clean_delete: keep_raw
    raw_dir,            \* RAW_EDGAR_DIR: cik -> its 10-K directory of raw filings
    cleaned_files,      \* the cleaned files written: cik -> filing -> file
    download_queue,     \* download_clean_delete: download_queue, oldest first
    unfinished_tasks,   \* download_queue: the puts without a task_done yet
    download_futures,   \* download_clean_delete: the download_worker call of each cik
    cleaning_threads,   \* download_clean_delete: the clean_worker threads
    main_pc,            \* the position in the body of download_clean_delete
    progress,           \* the bag of progress lines clean_worker has printed
    stats_summary,      \* download_clean_delete: stats_summary
    completed_count,    \* download_clean_delete counters
    total_downloaded,
    total_cleaned,
    total_errors,
    rate,               \* TokenBucketRateLimiter: self.rate, per tick of the clock
    capacity,           \* TokenBucketRateLimiter: self.capacity
    tokens,             \* TokenBucketRateLimiter: self.tokens
    last_update,        \* TokenBucketRateLimiter: self.last_update
    lock,               \* TokenBucketRateLimiter: the holders of self.lock
    monotonic,          \* the reading of time.monotonic()
    callers             \* the threads calling acquire: position and locals

loopvars == <<loop_last_ele, loop_lines, loop_itemTC>>

segvars == <<text, pc, item_dict, tableContent, rounds, list_lines, fallback_called, best_i,
             item_segmentation, page_list, written, error, filing_completed, filing_failed,
             loopvars>>

batchvars == <<cleaned_dir, items_dir, max_workers, task, driver_pc, collected,
               ciks_completed, ciks_failed, total_filings, filings_completed, filings_failed,
               runs>>

downloadvars == <<keep_raw, raw_dir, cleaned_files, download_queue, unfinished_tasks,
                  download_futures, cleaning_threads, main_pc, progress, stats_summary,
                  completed_count, total_downloaded, total_cleaned, total_errors>>

ratevars == <<rate, capacity, tokens, last_update, lock, monotonic, callers>>

vars == <<segvars, batchvars, downloadvars, ratevars>>

(* -------------------- print_items on one filing, by step --------------- *)

\* one filing is followed through the loop body of print_items; no batch runs
NoBatch ==
    /\ cleaned_dir = [c \in CIKs |-> NoDir]
    /\ items_dir = [c \in CIKs |-> [f \in Filings |-> [exists |-> FALSE, files |-> {}]]]
    /\ max_workers = 1
    /\ task = [c \in CIKs |-> [state |-> "queued", todo |-> {},
                               filing_completed |-> 0, filing_failed |-> 0]]
    /\ driver_pc = "collecting"
    /\ collected = {}
    /\ ciks_completed = 0
    /\ ciks_failed = 0
    /\ total_filings = 0
    /\ filings_completed = 0
    /\ filings_failed = 0
    /\ runs = 0

\* download_clean_delete is not running
NoDownload ==
    /\ keep_raw = FALSE
    /\ raw_dir = [c \in CIKs |-> NoRawDir]
    /\ cleaned_files = [c \in CIKs |-> [f \in Filings |-> NoFile]]
    /\ download_queue = <<>>
    /\ unfinished_tasks = 0
    /\ download_futures = [c \in CIKs |-> [state |-> "queued", todo |-> {},
                                           status |-> "", filings_added |-> 0]]
    /\ cleaning_threads = [t \in 1..MaxCleaners |-> [pc |-> "get", item |-> None]]
    /\ main_pc = [at |-> "executor", pills |-> 0]
    /\ progress = EmptyBag
    /\ stats_summary = [ok |-> 0, not_found |-> 0, error |-> 0, download_ok |-> 0]
    /\ completed_count = 0
    /\ total_downloaded = 0
    /\ total_cleaned = 0
    /\ total_errors = 0

\* no thread calls the rate limiter
NoRateLimiter ==
    /\ rate = 0
    /\ capacity = 0
    /\ tokens = 0
    /\ last_update = 0
    /\ lock = {}
    /\ monotonic = 0
    /\ callers = <<>>

FilingState(doc) ==
    /\ text = doc
    /\ pc = "start"
    /\ item_dict = <<>>
    /\ tableContent = <<>>
    /\ rounds = 0
    /\ list_lines = <<>>
    /\ fallback_called = FALSE
    /\ best_i = 0
    /\ item_segmentation = <<>>
    /\ page_list = <<>>
    /\ written = <<>>
    /\ error = ""
    /\ filing_completed = 0
    /\ filing_failed = 0
    /\ loop_last_ele = 0
    /\ loop_lines = <<>>
    /\ loop_itemTC = 0

Init == (\E doc \in Docs : FilingState(doc)) /\ NoBatch /\ NoDownload /\ NoRateLimiter

\* table_content_builder raises (max() of an empty list in number_of_rounds);
\* print_items catches it (lines 309-311)
BuildCandidatesRaises ==
    /\ pc = "start"
    /\ number_of_rounds(item_dict_builder(text)).raised
    /\ pc' = "failed"
    /\ error' = "ValueError"
    /\ filing_failed' = filing_failed + 1
    /\ UNCHANGED <<text, item_dict, tableContent, rounds, list_lines, fallback_called, best_i,
                   item_segmentation, page_list, written, filing_completed>>
    /\ UNCHANGED loopvars
    /\ UNCHANGED batchvars
    /\ UNCHANGED <<downloadvars, ratevars>>

\* _build_candidates up to the end of the primary loop (lines 159-173)
BuildPrimaryCandidates ==
    /\ pc = "start"
    /\ LET id == item_dict_builder(text)
           est == number_of_rounds(id)
       IN  /\ ~est.raised
           /\ item_dict' = id
           /\ tableContent' = table_content(est.last_ele)
           /\ rounds' = est.rounds
           /\ list_lines' = primary_rounds(table_content(est.last_ele), id, est.rounds, <<>>, 0)
    /\ pc' = "primary"
    /\ UNCHANGED <<text, fallback_called, best_i, item_segmentation, page_list, written, error,
                   filing_completed, filing_failed>>
    /\ UNCHANGED loopvars
    /\ UNCHANGED batchvars
    /\ UNCHANGED <<downloadvars, ratevars>>

\* _build_candidates, lines 180-182: some candidate is empty
FallbackBuildCandidates ==
    /\ pc = "primary"
    /\ any_empty(list_lines)
    /\ list_lines' = fallback_build_candidates(text)
    /\ fallback_called' = TRUE
    /\ pc' = "candidates"
    /\ UNCHANGED <<text, item_dict, tableContent, rounds, best_i, item_segmentation, page_list,
                   written, error, filing_completed, filing_failed>>
    /\ UNCHANGED loopvars
    /\ UNCHANGED batchvars
    /\ UNCHANGED <<downloadvars, ratevars>>

\* _build_candidates, line 184: no candidate is empty
ReturnPrimaryCandidates ==
    /\ pc = "primary"
    /\ ~any_empty(list_lines)
    /\ pc' = "candidates"
    /\ UNCHANGED <<text, item_dict, tableContent, rounds, list_lines, fallback_called, best_i,
                   item_segmentation, page_list, written, error, filing_completed,
                   filing_failed>>
    /\ UNCHANGED loopvars
    /\ UNCHANGED batchvars
    /\ UNCHANGED <<downloadvars, ratevars>>

\* _select_best_candidate raises IndexError; print_items catches it
SelectBestCandidateRaises ==
    /\ pc = "candidates"
    /\ select_best_candidate(list_lines, item_dict, text).raised
    /\ pc' = "failed"
    /\ error' = "IndexError"
    /\ filing_failed' = filing_failed + 1
    /\ UNCHANGED <<text, item_dict, tableContent, rounds, list_lines, fallback_called, best_i,
                   item_segmentation, page_list, written, filing_completed>>
    /\ UNCHANGED loopvars
    /\ UNCHANGED batchvars
    /\ UNCHANGED <<downloadvars, ratevars>>

\* _select_best_candidate returns; print_items builds page_list and makes
\* output_dir (lines 285-294)
SelectBestCandidate ==
    /\ pc = "candidates"
    /\ LET res == select_best_candidate(list_lines, item_dict, text)
       IN  /\ ~res.raised
           /\ best_i' = res.best_i
           /\ item_segmentation' = res.selected
           /\ page_list' = page_list_of(res.selected, Len(text))
    /\ pc' = "writing"
    /\ UNCHANGED <<text, item_dict, tableContent, rounds, list_lines, fallback_called,
                   written, error, filing_completed, filing_failed>>
    /\ UNCHANGED loopvars
    /\ UNCHANGED batchvars
    /\ UNCHANGED <<downloadvars, ratevars>>

\* one turn of the loop of lines 296-305: the chunk of the next entry is written
WriteChunk ==
    /\ pc = "writing"
    /\ Len(written) < Len(item_segmentation)
    /\ ~open_raises(item_segmentation[Len(written) + 1].item_num)
    /\ written' = Append(written, chunk_of(text, item_segmentation, Len(written) + 1))
    /\ UNCHANGED <<text, pc, item_dict, tableContent, rounds, list_lines, fallback_called,
                   best_i, item_segmentation, page_list, error, filing_completed,
                   filing_failed>>
    /\ UNCHANGED loopvars
    /\ UNCHANGED batchvars
    /\ UNCHANGED <<downloadvars, ratevars>>

\* line 304 raises: the file of the next entry cannot be opened; print_items
\* catches it, the chunks written so far stay
WriteChunkRaises ==
    /\ pc = "writing"
    /\ Len(written) < Len(item_segmentation)
    /\ open_raises(item_segmentation[Len(written) + 1].item_num)
    /\ pc' = "failed"
    /\ error' = "FileNotFoundError"
    /\ filing_failed' = filing_failed + 1
    /\ UNCHANGED <<text, item_dict, tableContent, rounds, list_lines, fallback_called, best_i,
                   item_segmentation, page_list, written, filing_completed>>
    /\ UNCHANGED loopvars
    /\ UNCHANGED batchvars
    /\ UNCHANGED <<downloadvars, ratevars>>

\* lines 307-308: every chunk is written
FilingCompleted ==
    /\ pc = "writing"
    /\ Len(written) = Len(item_segmentation)
    /\ pc' = "done"
    /\ filing_completed' = filing_completed + 1
    /\ UNCHANGED <<text, item_dict, tableContent, rounds, list_lines, fallback_called, best_i,
                   item_segmentation, page_list, written, error, filing_failed>>
    /\ UNCHANGED loopvars
    /\ UNCHANGED batchvars
    /\ UNCHANGED <<downloadvars, ratevars>>

Next ==
    \/ BuildCandidatesRaises
    \/ BuildPrimaryCandidates
    \/ FallbackBuildCandidates
    \/ ReturnPrimaryCandidates
    \/ SelectBestCandidateRaises
    \/ SelectBestCandidate
    \/ WriteChunk
    \/ WriteChunkRaises
    \/ FilingCompleted

Spec == Init /\ [][Next]_vars

(* ------------------ try_exercize over print_items, by task ------------- *)

BatchInit ==
    /\ FilingState(<<>>)
    /\ cleaned_dir \in [CIKs -> CleanedDirs]
    /\ items_dir = [c \in CIKs |-> [f \in Filings |-> [exists |-> FALSE, files |-> {}]]]
    /\ max_workers \in 1..MaxWorkers
    /\ task = [c \in CIKs |-> [state |-> "queued", todo |-> {},
                               filing_completed |-> 0, filing_failed |-> 0]]
    /\ driver_pc = "collecting"
    /\ collected = {}
    /\ ciks_completed = 0
    /\ ciks_failed = 0
    /\ total_filings = 0
    /\ filings_completed = 0
    /\ filings_failed = 0
    /\ runs = 1
    /\ NoDownload
    /\ NoRateLimiter

\* the pool hands out the submitted calls in the order of ciks, to a free worker
CanStart(c) ==
    /\ task[c].state = "queued"
    /\ \A i, j \in DOMAIN ciks : (ciks[j] = c /\ i < j) => task[ciks[i]].state # "queued"
    /\ Cardinality({d \in CIKs : task[d].state = "running"}) < max_workers

\* print_items(cik) starts (lines 277-282): the counters are 0 and
\* source_path.iterdir() lists the filings
StartTask(c) ==
    /\ CanStart(c)
    /\ cleaned_dir[c].exists
    /\ task' = [task EXCEPT ![c].state = "running", ![c].todo = Filings,
                            ![c].filing_completed = 0, ![c].filing_failed = 0]
    /\ UNCHANGED <<runs, cleaned_dir, items_dir, max_workers, driver_pc, collected, ciks_completed,
                   ciks_failed, total_filings, filings_completed, filings_failed>>
    /\ UNCHANGED segvars
    /\ UNCHANGED <<downloadvars, ratevars>>

\* source_path does not exist: iterdir() raises outside the try of print_items
StartTaskRaises(c) ==
    /\ CanStart(c)
    /\ ~cleaned_dir[c].exists
    /\ task' = [task EXCEPT ![c].state = "raised"]
    /\ UNCHANGED <<runs, cleaned_dir, items_dir, max_workers, driver_pc, collected, ciks_completed,
                   ciks_failed, total_filings, filings_completed, filings_failed>>
    /\ UNCHANGED segvars
    /\ UNCHANGED <<downloadvars, ratevars>>

\* an output directory that does not name the cik: INTERIM_ITEMS_DIR / '10-K' /
\* filing.name, one directory for the filings of that name of every cik
output_dir_without_cik(c, f) == <<ciks[1], f>>

\* output_dir = INTERIM_ITEMS_DIR / cik / '10-K' / filing.name (line 293), as
\* the place of items_dir it names
output_dir(c, f) == <<c, f>>

\* the directory at a place of items_dir
dir_at(dirs, p) == dirs[p[1]][p[2]]

\* a loop body without try/except: the exception leaves print_items, the
\* filings not yet processed are never reached
FilingFailureAborts(c, f, dir) ==
    /\ task' = [task EXCEPT ![c].state = "raised", ![c].todo = {}]
    /\ items_dir' = [items_dir EXCEPT ![output_dir(c, f)[1]][output_dir(c, f)[2]] = dir]

\* the except clause of print_items (lines 309-311): the filing is counted as
\* failed and the loop goes on; dir is what the try block left of output_dir
FilingFailure(c, f, dir) ==
    /\ task' = [task EXCEPT ![c].todo = @ \ {f}, ![c].filing_failed = @ + 1]
    /\ items_dir' = [items_dir EXCEPT ![output_dir(c, f)[1]][output_dir(c, f)[2]] = dir]

\* lines 285-308 with no exception: output_dir holds every chunk, the filing is
\* counted as completed
FilingSuccess(c, f, dir) ==
    /\ task' = [task EXCEPT ![c].todo = @ \ {f}, ![c].filing_completed = @ + 1]
    /\ items_dir' = [items_dir EXCEPT ![output_dir(c, f)[1]][output_dir(c, f)[2]] = dir]

\* the loop body with mkdir(parents=True) and no exist_ok on line 294: a
\* directory left by an earlier run raises FileExistsError
loop_body_exist_not_ok(dir, filing, seg) ==
    IF seg.raised \/ dir.exists THEN [failed |-> TRUE, dir |-> dir]
    ELSE [failed |-> writable_prefix(seg.selected) < Len(seg.selected),
          dir |-> [exists |-> TRUE,
                   files |-> write_chunks(dir.files, filing, seg.selected,
                                          writable_prefix(seg.selected))]]

\* the loop body with output_dir made before item_segmentation_list is called
loop_body_mkdir_first(dir, filing, seg) ==
    IF seg.raised THEN [failed |-> TRUE, dir |-> [exists |-> TRUE, files |-> dir.files]]
    ELSE [failed |-> writable_prefix(seg.selected) < Len(seg.selected),
          dir |-> [exists |-> TRUE,
                   files |-> write_chunks(dir.files, filing, seg.selected,
                                          writable_prefix(seg.selected))]]

\* the body of the loop of print_items (lines 283-311) once item_segmentation_list
\* has returned or raised (seg): whether the except clause ran, and output_dir
loop_body(dir, filing, seg) ==
    IF seg.raised THEN [failed |-> TRUE, dir |-> dir]
    ELSE [failed |-> writable_prefix(seg.selected) < Len(seg.selected),
          dir |-> [exists |-> TRUE,
                   files |-> write_chunks(dir.files, filing, seg.selected,
                                          writable_prefix(seg.selected))]]

FilingOutcome(c, f, out) ==
    IF out.failed THEN FilingFailure(c, f, out.dir) ELSE FilingSuccess(c, f, out.dir)

\* one turn of the loop of print_items (lines 282-311) on the filing f of cik c:
\* item_segmentation_list raises, or a chunk file cannot be opened after the
\* chunks before it were written, or every chunk is written
FilingTurn(c, f) ==
    /\ task[c].state = "running"
    /\ f \in task[c].todo
    /\ FilingOutcome(c, f, loop_body(dir_at(items_dir, output_dir(c, f)),
                                     cleaned_dir[c].filings[f],
                                     segmentation_of[cleaned_dir[c].filings[f]]))
    /\ UNCHANGED <<runs, cleaned_dir, max_workers, driver_pc, collected, ciks_completed,
                   ciks_failed, total_filings, filings_completed, filings_failed>>
    /\ UNCHANGED segvars
    /\ UNCHANGED <<downloadvars, ratevars>>

\* print_items returns (filing_completed, filing_failed) (line 313)
TaskReturns(c) ==
    /\ task[c].state = "running"
    /\ task[c].todo = {}
    /\ task' = [task EXCEPT ![c].state = "returned"]
    /\ UNCHANGED <<runs, cleaned_dir, items_dir, max_workers, driver_pc, collected, ciks_completed,
                   ciks_failed, total_filings, filings_completed, filings_failed>>
    /\ UNCHANGED segvars
    /\ UNCHANGED <<downloadvars, ratevars>>

\* as_completed yields a future whose result() returns (lines 329-339)
CollectResult(c) ==
    /\ driver_pc = "collecting"
    /\ c \notin collected
    /\ task[c].state = "returned"
    /\ collected' = collected \cup {c}
    /\ filings_completed' = filings_completed + task[c].filing_completed
    /\ filings_failed' = filings_failed + task[c].filing_failed
    /\ total_filings' = total_filings + task[c].filing_completed + task[c].filing_failed
    /\ IF task[c].filing_failed = 0
       THEN ciks_completed' = ciks_completed + 1 /\ UNCHANGED ciks_failed
       ELSE ciks_failed' = ciks_failed + 1 /\ UNCHANGED ciks_completed
    /\ UNCHANGED <<runs, cleaned_dir, items_dir, max_workers, task, driver_pc>>
    /\ UNCHANGED segvars
    /\ UNCHANGED <<downloadvars, ratevars>>

\* as_completed yields a future whose result() raises (lines 340-342)
CollectException(c) ==
    /\ driver_pc = "collecting"
    /\ c \notin collected
    /\ task[c].state = "raised"
    /\ collected' = collected \cup {c}
    /\ ciks_failed' = ciks_failed + 1
    /\ UNCHANGED <<runs, cleaned_dir, items_dir, max_workers, task, driver_pc, ciks_completed,
                   total_filings, filings_completed, filings_failed>>
    /\ UNCHANGED segvars
    /\ UNCHANGED <<downloadvars, ratevars>>

\* every future is collected: the summary is printed (lines 344-352)
PrintSummary ==
    /\ driver_pc = "collecting"
    /\ collected = CIKs
    /\ driver_pc' = "summary"
    /\ UNCHANGED <<runs, cleaned_dir, items_dir, max_workers, task, collected, ciks_completed,
                   ciks_failed, total_filings, filings_completed, filings_failed>>
    /\ UNCHANGED segvars
    /\ UNCHANGED <<downloadvars, ratevars>>

\* try_exercize(ciks) is called once more on the same directories: fresh
\* counters and futures (lines 319-327), the output of the run before is on disk
RunAgain ==
    /\ driver_pc = "summary"
    /\ runs < MaxRuns
    /\ runs' = runs + 1
    /\ driver_pc' = "collecting"
    /\ collected' = {}
    /\ task' = [c \in CIKs |-> [state |-> "queued", todo |-> {},
                                filing_completed |-> 0, filing_failed |-> 0]]
    /\ ciks_completed' = 0
    /\ ciks_failed' = 0
    /\ total_filings' = 0
    /\ filings_completed' = 0
    /\ filings_failed' = 0
    /\ UNCHANGED <<cleaned_dir, items_dir, max_workers>>
    /\ UNCHANGED segvars
    /\ UNCHANGED <<downloadvars, ratevars>>

BatchNext ==
    \/ \E c \in CIKs : StartTask(c)
    \/ \E c \in CIKs : StartTaskRaises(c)
    \/ \E c \in CIKs, f \in Filings : FilingTurn(c, f)
    \/ \E c \in CIKs : TaskReturns(c)
    \/ \E c \in CIKs : CollectResult(c)
    \/ \E c \in CIKs : CollectException(c)
    \/ PrintSummary
    \/ RunAgain

BatchSpec == BatchInit /\ [][BatchNext]_vars

\* the workers and the driver keep running: a step that can be taken is taken
FairBatchSpec == BatchSpec /\ WF_vars(BatchNext)

(* ------------------ _build_candidates on one filing, by step ----------- *)

\* the cleaned filings the builder loops are followed on
BuildDocs == Scenario2Docs \cup Scenario3Docs \cup NoiseDocs \cup BatchDocs

BuildInit ==
    (\E doc \in BuildDocs : FilingState(doc)) /\ NoBatch /\ NoDownload /\ NoRateLimiter

\* table_content_builder raises (line 159)
TableContentBuilderRaises ==
    /\ pc = "start"
    /\ number_of_rounds(item_dict_builder(text)).raised
    /\ pc' = "failed"
    /\ error' = "ValueError"
    /\ UNCHANGED <<text, item_dict, tableContent, rounds, list_lines, fallback_called, best_i,
                   item_segmentation, page_list, written, filing_completed, filing_failed>>
    /\ UNCHANGED loopvars
    /\ UNCHANGED batchvars
    /\ UNCHANGED <<downloadvars, ratevars>>

\* lines 159-164, given what number_of_rounds returns
PrimarySetup(items, est) ==
    /\ ~est.raised
    /\ item_dict' = items
    /\ tableContent' = table_content(est.last_ele)
    /\ rounds' = est.rounds

\* lines 159-164: tableContent, item_dict, list_lines = [], last_ele = 0, rounds
EnterPrimaryLoop ==
    /\ pc = "start"
    /\ PrimarySetup(item_dict_builder(text), number_of_rounds(item_dict_builder(text)))
    /\ list_lines' = <<>>
    /\ loop_last_ele' = 0
    /\ loop_lines' = <<>>
    /\ loop_itemTC' = 1
    /\ pc' = "primary_loop"
    /\ UNCHANGED <<text, fallback_called, best_i, item_segmentation, page_list, written, error,
                   filing_completed, filing_failed>>
    /\ UNCHANGED batchvars
    /\ UNCHANGED <<downloadvars, ratevars>>

\* a round of either loop is at the label loop_itemTC of tableContent
AtLabel ==
    /\ Len(list_lines) < rounds
    /\ loop_itemTC <= Len(tableContent)

\* lines 168-172 with a row that matches: appended, last_ele moved to its line
PrimaryMatch ==
    /\ pc = "primary_loop"
    /\ AtLabel
    /\ LET k == first_match(item_dict, tableContent[loop_itemTC], loop_last_ele)
       IN  /\ k # 0
           /\ loop_lines' = Append(loop_lines, item_dict[k])
           /\ loop_last_ele' = item_dict[k].item_line
    /\ loop_itemTC' = loop_itemTC + 1
    /\ UNCHANGED <<text, pc, item_dict, tableContent, rounds, list_lines, fallback_called,
                   best_i, item_segmentation, page_list, written, error, filing_completed,
                   filing_failed>>
    /\ UNCHANGED batchvars
    /\ UNCHANGED <<downloadvars, ratevars>>

\* lines 168-169 with no row that matches: on to the next label
PrimaryNoMatch ==
    /\ pc = "primary_loop"
    /\ AtLabel
    /\ first_match(item_dict, tableContent[loop_itemTC], loop_last_ele) = 0
    /\ loop_itemTC' = loop_itemTC + 1
    /\ UNCHANGED <<text, pc, item_dict, tableContent, rounds, list_lines, fallback_called,
                   best_i, item_segmentation, page_list, written, error, filing_completed,
                   filing_failed, loop_last_ele, loop_lines>>
    /\ UNCHANGED batchvars
    /\ UNCHANGED <<downloadvars, ratevars>>

\* line 173, then line 166 of the next round
PrimaryEndRound ==
    /\ pc = "primary_loop"
    /\ Len(list_lines) < rounds
    /\ loop_itemTC > Len(tableContent)
    /\ list_lines' = Append(list_lines, loop_lines)
    /\ loop_lines' = <<>>
    /\ loop_itemTC' = 1
    /\ UNCHANGED <<text, pc, item_dict, tableContent, rounds, fallback_called, best_i,
                   item_segmentation, page_list, written, error, filing_completed,
                   filing_failed, loop_last_ele>>
    /\ UNCHANGED batchvars
    /\ UNCHANGED <<downloadvars, ratevars>>

\* lines 180 and 184: no candidate is empty, list_lines is returned
PrimaryReturn ==
    /\ pc = "primary_loop"
    /\ Len(list_lines) = rounds
    /\ ~any_empty(list_lines)
    /\ pc' = "candidates"
    /\ UNCHANGED <<text, item_dict, tableContent, rounds, list_lines, fallback_called, best_i,
                   item_segmentation, page_list, written, error, filing_completed,
                   filing_failed>>
    /\ UNCHANGED loopvars
    /\ UNCHANGED batchvars
    /\ UNCHANGED <<downloadvars, ratevars>>

\* lines 180-182 and segment_fallback.py lines 23-29: some candidate is empty,
\* the fallback starts over with list_lines = [] and last_ele = 0
EnterFallbackLoop ==
    /\ pc = "primary_loop"
    /\ Len(list_lines) = rounds
    /\ any_empty(list_lines)
    /\ fallback_called' = TRUE
    /\ list_lines' = <<>>
    /\ loop_last_ele' = 0
    /\ loop_lines' = <<>>
    /\ loop_itemTC' = 1
    /\ pc' = "fallback_loop"
    /\ UNCHANGED <<text, item_dict, tableContent, rounds, best_i, item_segmentation, page_list,
                   written, error, filing_completed, filing_failed>>
    /\ UNCHANGED batchvars
    /\ UNCHANGED <<downloadvars, ratevars>>

\* segment_fallback.py lines 33-38 with a row that matches: appended, last_ele
\* moved only when the label occurs at least `rounds` times
FallbackMatch ==
    /\ pc = "fallback_loop"
    /\ AtLabel
    /\ LET k == first_match(item_dict, tableContent[loop_itemTC], loop_last_ele)
       IN  /\ k # 0
           /\ loop_lines' = Append(loop_lines, item_dict[k])
           /\ loop_last_ele' = fallback_last_ele(item_dict, rounds, item_dict[k], loop_last_ele)
    /\ loop_itemTC' = loop_itemTC + 1
    /\ UNCHANGED <<text, pc, item_dict, tableContent, rounds, list_lines, fallback_called,
                   best_i, item_segmentation, page_list, written, error, filing_completed,
                   filing_failed>>
    /\ UNCHANGED batchvars
    /\ UNCHANGED <<downloadvars, ratevars>>

\* segment_fallback.py lines 33-34 with no row that matches
FallbackNoMatch ==
    /\ pc = "fallback_loop"
    /\ AtLabel
    /\ first_match(item_dict, tableContent[loop_itemTC], loop_last_ele) = 0
    /\ loop_itemTC' = loop_itemTC + 1
    /\ UNCHANGED <<text, pc, item_dict, tableContent, rounds, list_lines, fallback_called,
                   best_i, item_segmentation, page_list, written, error, filing_completed,
                   filing_failed, loop_last_ele, loop_lines>>
    /\ UNCHANGED batchvars
    /\ UNCHANGED <<downloadvars, ratevars>>

\* segment_fallback.py line 39, then line 31 of the next round
FallbackEndRound ==
    /\ pc = "fallback_loop"
    /\ Len(list_lines) < rounds
    /\ loop_itemTC > Len(tableContent)
    /\ list_lines' = Append(list_lines, loop_lines)
    /\ loop_lines' = <<>>
    /\ loop_itemTC' = 1
    /\ UNCHANGED <<text, pc, item_dict, tableContent, rounds, fallback_called, best_i,
                   item_segmentation, page_list, written, error, filing_completed,
                   filing_failed, loop_last_ele>>
    /\ UNCHANGED batchvars
    /\ UNCHANGED <<downloadvars, ratevars>>

\* segment_fallback.py line 44 and segment.py line 184
FallbackReturn ==
    /\ pc = "fallback_loop"
    /\ Len(list_lines) = rounds
    /\ pc' = "candidates"
    /\ UNCHANGED <<text, item_dict, tableContent, rounds, list_lines, fallback_called, best_i,
                   item_segmentation, page_list, written, error, filing_completed,
                   filing_failed>>
    /\ UNCHANGED loopvars
    /\ UNCHANGED batchvars
    /\ UNCHANGED <<downloadvars, ratevars>>

BuildNext ==
    \/ TableContentBuilderRaises
    \/ EnterPrimaryLoop
    \/ PrimaryMatch
    \/ PrimaryNoMatch
    \/ PrimaryEndRound
    \/ PrimaryReturn
    \/ EnterFallbackLoop
    \/ FallbackMatch
    \/ FallbackNoMatch
    \/ FallbackEndRound
    \/ FallbackReturn

BuildSpec == BuildInit /\ [][BuildNext]_vars

(* ------------- tools/segment_single_filing.py on one filing ------------ *)

\* page_list.append(11849): the end marker of the tool
END_MARKER == 11849

\* page_list of segment_single_filing (lines 59-60)
tool_page_list(segmentation) ==
    [n \in 1..(Len(segmentation) + 1) |->
        IF n <= Len(segmentation) THEN segmentation[n].item_line ELSE END_MARKER]

\* the chunk the tool saves for entry n (lines 73-79)
tool_chunk_of(doc, segmentation, n) ==
    LET pages == tool_page_list(segmentation)
    IN  [item_num |-> segmentation[n].item_num,
         start |-> pages[n],
         end |-> pages[n + 1],
         lines |-> islice_lines(Len(doc), pages[n], pages[n + 1])]

\* cleaned filings about as long as the end marker: headings on lines 2 and 3,
\* and a heading on line 2 with one on the last line
LongDocs ==
    {Filled(n, 2 :> Item1Business @@ 3 :> Item2Properties) :
        n \in (END_MARKER - 2)..(END_MARKER + 1)}
    \cup {Filled(n, 2 :> Item1Business @@ n :> Item2Properties) :
            n \in {END_MARKER - 1, END_MARKER + 1}}

\* the cleaned filings the tool is run on
ToolDocs == BatchDocs \cup NoiseDocs \cup Scenario1Docs \cup LongDocs

\* item_segmentation_list(filepath, verbose=True) on each of them
tool_segmentation_of == [d \in ToolDocs |-> item_segmentation_list(d)]

ToolInit ==
    (\E doc \in ToolDocs : FilingState(doc)) /\ NoBatch /\ NoDownload /\ NoRateLimiter

\* lines 31-51: the filing directory or full-submission.txt does not exist
\* under either spelling of the cik; the tool prints and returns
ToolFilingNotFound ==
    /\ pc = "start"
    /\ pc' = "not_found"
    /\ UNCHANGED <<text, item_dict, tableContent, rounds, list_lines, fallback_called, best_i,
                   item_segmentation, page_list, written, error, filing_completed,
                   filing_failed>>
    /\ UNCHANGED loopvars
    /\ UNCHANGED batchvars
    /\ UNCHANGED <<downloadvars, ratevars>>

\* line 58 raises; the tool catches it (lines 92-95)
ToolSegmentationRaises ==
    /\ pc = "start"
    /\ tool_segmentation_of[text].raised
    /\ pc' = "failed"
    /\ error' = "Exception"
    /\ UNCHANGED <<text, item_dict, tableContent, rounds, list_lines, fallback_called, best_i,
                   item_segmentation, page_list, written, filing_completed, filing_failed>>
    /\ UNCHANGED loopvars
    /\ UNCHANGED batchvars
    /\ UNCHANGED <<downloadvars, ratevars>>

\* lines 58-66: the segmentation, page_list and the output directory
ToolSegmentationReturns(seg) ==
    /\ ~seg.raised
    /\ item_segmentation' = seg.selected
    /\ page_list' = tool_page_list(seg.selected)

ToolSegmentation ==
    /\ pc = "start"
    /\ ToolSegmentationReturns(tool_segmentation_of[text])
    /\ pc' = "writing"
    /\ UNCHANGED <<text, item_dict, tableContent, rounds, list_lines, fallback_called, best_i,
                   written, error, filing_completed, filing_failed>>
    /\ UNCHANGED loopvars
    /\ UNCHANGED batchvars
    /\ UNCHANGED <<downloadvars, ratevars>>

\* one turn of the loop of lines 73-87: the chunk of the next entry is saved
ToolSaveItem ==
    /\ pc = "writing"
    /\ Len(written) < Len(item_segmentation)
    /\ ~open_raises(item_segmentation[Len(written) + 1].item_num)
    /\ written' = Append(written, tool_chunk_of(text, item_segmentation, Len(written) + 1))
    /\ UNCHANGED <<text, pc, item_dict, tableContent, rounds, list_lines, fallback_called,
                   best_i, item_segmentation, page_list, error, filing_completed,
                   filing_failed>>
    /\ UNCHANGED loopvars
    /\ UNCHANGED batchvars
    /\ UNCHANGED <<downloadvars, ratevars>>

\* line 83 raises: the file of the next entry cannot be opened; the tool
\* catches it, the chunks saved so far stay
ToolSaveItemRaises ==
    /\ pc = "writing"
    /\ Len(written) < Len(item_segmentation)
    /\ open_raises(item_segmentation[Len(written) + 1].item_num)
    /\ pc' = "failed"
    /\ error' = "FileNotFoundError"
    /\ UNCHANGED <<text, item_dict, tableContent, rounds, list_lines, fallback_called, best_i,
                   item_segmentation, page_list, written, filing_completed, filing_failed>>
    /\ UNCHANGED loopvars
    /\ UNCHANGED batchvars
    /\ UNCHANGED <<downloadvars, ratevars>>

\* lines 89-91: every chunk is saved
ToolSegmented ==
    /\ pc = "writing"
    /\ Len(written) = Len(item_segmentation)
    /\ pc' = "done"
    /\ UNCHANGED <<text, item_dict, tableContent, rounds, list_lines, fallback_called, best_i,
                   item_segmentation, page_list, written, error, filing_completed,
                   filing_failed>>
    /\ UNCHANGED loopvars
    /\ UNCHANGED batchvars
    /\ UNCHANGED <<downloadvars, ratevars>>

ToolNext ==
    \/ ToolFilingNotFound
    \/ ToolSegmentationRaises
    \/ ToolSegmentation
    \/ ToolSaveItem
    \/ ToolSaveItemRaises
    \/ ToolSegmented

ToolSpec == ToolInit /\ [][ToolNext]_vars

(* ----------- edgar/clean_downloader.py: download_clean_delete ---------- *)

\* verify_cleaned_file(cleaned_path) (lines 27-68)
verify_cleaned_file(file) ==
    IF ~file.exists THEN FALSE
    ELSE IF file.size < MIN_SIZE_BYTES THEN FALSE
    ELSE IF ~file.decodes THEN FALSE
    ELSE IF file.sample < MIN_SAMPLE_LEN THEN FALSE
    ELSE TRUE

may_delete_unverified(keep, file) == ~keep

\* clean_and_delete_single_filing: the raw directory is to be removed
\* (lines 115-116)
may_delete(keep, file) == ~keep /\ verify_cleaned_file(file)

\* clean_and_delete_single_filing(cik, accession_dir, keep_raw) on the raw file
\* raw (lines 71-144); rmtree_raises is whether shutil.rmtree raises OSError.
\* [status, cleaned, deleted, cleaned_file (NoFile when none is written),
\*  removed (the accession directory is gone)]
clean_and_delete_single_filing(raw, keep, rmtree_raises) ==
    LET cleaned_file == [exists |-> TRUE, decodes |-> TRUE,
                         size |-> raw.size, sample |-> raw.sample]
        result(status, cleaned, deleted, file) ==
            [status |-> status, cleaned |-> cleaned, deleted |-> deleted,
             cleaned_file |-> file, removed |-> deleted = 1]
    IN  IF ~raw.exists THEN result("error", 0, 0, NoFile)
        ELSE IF ~raw.decodes THEN result("error", 0, 0, NoFile)
        ELSE IF keep THEN result("ok", 1, 0, cleaned_file)
        ELSE IF may_delete(keep, cleaned_file)
             THEN IF rmtree_raises THEN result("error", 1, 0, cleaned_file)
                  ELSE result("ok", 1, 1, cleaned_file)
        ELSE result("error", 1, 0, cleaned_file)

\* the cleaning threads are started (lines 281-286), the download workers are
\* submitted (lines 289-293)
DownloadInit ==
    /\ FilingState(<<>>)
    /\ NoBatch
    /\ NoRateLimiter
    /\ keep_raw \in BOOLEAN
    /\ raw_dir = [c \in CIKs |-> NoRawDir]
    /\ cleaned_files = [c \in CIKs |-> [f \in Filings |-> NoFile]]
    /\ download_queue = <<>>
    /\ unfinished_tasks = 0
    /\ download_futures = [c \in CIKs |-> [state |-> "queued", todo |-> {},
                                           status |-> "", filings_added |-> 0]]
    /\ cleaning_threads = [t \in 1..MaxCleaners |-> [pc |-> "get", item |-> None]]
    /\ main_pc = [at |-> "executor", pills |-> 0]
    /\ progress = EmptyBag
    /\ stats_summary = [ok |-> 0, not_found |-> 0, error |-> 0, download_ok |-> 0]
    /\ completed_count = 0
    /\ total_downloaded = 0
    /\ total_cleaned = 0
    /\ total_errors = 0

\* download_worker(cik) starts on a free worker of the pool and calls
\* download_for_cik (lines 195-212): the filings it will enumerate
DownloadForCik(c) ==
    /\ download_futures[c].state = "queued"
    /\ Cardinality({d \in CIKs : download_futures[d].state = "running"}) < MAX_WORKERS_DOWNLOADS
    /\ \E r \in DownloadResults :
        /\ raw_dir' = [raw_dir EXCEPT ![c] = r.dir]
        /\ download_futures' =
             [download_futures EXCEPT
                ![c] = [state |-> "running",
                        todo |-> IF r.status = "ok" /\ r.dir.exists
                                 THEN {f \in Filings : r.dir.filings[f].exists}
                                 ELSE {},
                        status |-> IF r.status = "ok"
                                   THEN IF r.dir.exists THEN "download_ok" ELSE "error"
                                   ELSE r.status,
                        filings_added |-> 0]]
    /\ UNCHANGED <<keep_raw, cleaned_files, download_queue, unfinished_tasks, cleaning_threads,
                   main_pc, progress, stats_summary, completed_count, total_downloaded,
                   total_cleaned, total_errors>>
    /\ UNCHANGED <<segvars, batchvars, ratevars>>

\* download_worker puts one filing on the queue (lines 212-217)
PutFiling(c, f) ==
    /\ download_futures[c].state = "running"
    /\ f \in download_futures[c].todo
    /\ download_queue' = Append(download_queue, [cik |-> c, accession |-> f])
    /\ unfinished_tasks' = unfinished_tasks + 1
    /\ download_futures' =
         [download_futures EXCEPT ![c].todo = @ \ {f}, ![c].filings_added = @ + 1]
    /\ UNCHANGED <<keep_raw, raw_dir, cleaned_files, cleaning_threads, main_pc, progress,
                   stats_summary, completed_count, total_downloaded, total_cleaned,
                   total_errors>>
    /\ UNCHANGED <<segvars, batchvars, ratevars>>

\* download_worker returns (lines 219-225)
DownloadWorkerReturns(c) ==
    /\ download_futures[c].state = "running"
    /\ download_futures[c].todo = {}
    /\ download_futures' = [download_futures EXCEPT ![c].state = "done"]
    /\ UNCHANGED <<keep_raw, raw_dir, cleaned_files, download_queue, unfinished_tasks,
                   cleaning_threads, main_pc, progress, stats_summary, completed_count,
                   total_downloaded, total_cleaned, total_errors>>
    /\ UNCHANGED <<segvars, batchvars, ratevars>>

\* download_worker raises while it enumerates the filings: iterdir, is_dir and
\* exists are not guarded (lines 211-215)
DownloadWorkerRaises(c) ==
    /\ download_futures[c].state = "running"
    /\ download_futures[c].status = "download_ok"
    /\ download_futures' = [download_futures EXCEPT ![c].state = "raised"]
    /\ UNCHANGED <<keep_raw, raw_dir, cleaned_files, download_queue, unfinished_tasks,
                   cleaning_threads, main_pc, progress, stats_summary, completed_count,
                   total_downloaded, total_cleaned, total_errors>>
    /\ UNCHANGED <<segvars, batchvars, ratevars>>

\* as_completed yields a future whose result() returns (lines 297-313)
CollectDownload(c) ==
    /\ main_pc.at = "executor"
    /\ download_futures[c].state = "done"
    /\ download_futures' = [download_futures EXCEPT ![c].state = "collected"]
    /\ stats_summary' =
         IF download_futures[c].status = "download_ok"
         THEN [stats_summary EXCEPT !.download_ok = @ + 1]
         ELSE IF download_futures[c].status = "not_found"
         THEN [stats_summary EXCEPT !.not_found = @ + 1]
         ELSE [stats_summary EXCEPT !.error = @ + 1]
    /\ total_downloaded' =
         IF download_futures[c].status = "download_ok"
         THEN total_downloaded + download_futures[c].filings_added
         ELSE total_downloaded
    /\ UNCHANGED <<keep_raw, raw_dir, cleaned_files, download_queue, unfinished_tasks,
                   cleaning_threads, main_pc, progress, completed_count, total_cleaned,
                   total_errors>>
    /\ UNCHANGED <<segvars, batchvars, ratevars>>

\* as_completed yields a future whose result() raises (line 298): the with
\* block waits for the workers still running and the exception leaves
\* download_clean_delete
CollectRaises(c) ==
    /\ main_pc.at = "executor"
    /\ download_futures[c].state = "raised"
    /\ \A d \in CIKs : download_futures[d].state \in {"done", "collected", "raised"}
    /\ main_pc' = [main_pc EXCEPT !.at = "raised"]
    /\ UNCHANGED <<keep_raw, raw_dir, cleaned_files, download_queue, unfinished_tasks,
                   download_futures, cleaning_threads, progress, stats_summary,
                   completed_count, total_downloaded, total_cleaned, total_errors>>
    /\ UNCHANGED <<segvars, batchvars, ratevars>>

\* every future is collected: the with block of the executor ends (line 313)
ShutdownExecutor ==
    /\ main_pc.at = "executor"
    /\ \A c \in CIKs : download_futures[c].state = "collected"
    /\ main_pc' = [main_pc EXCEPT !.at = "join"]
    /\ UNCHANGED <<keep_raw, raw_dir, cleaned_files, download_queue, unfinished_tasks,
                   download_futures, cleaning_threads, progress, stats_summary,
                   completed_count, total_downloaded, total_cleaned, total_errors>>
    /\ UNCHANGED <<segvars, batchvars, ratevars>>

\* download_queue.join() returns (line 316)
QueueJoin ==
    /\ main_pc.at = "join"
    /\ unfinished_tasks = 0
    /\ main_pc' = [main_pc EXCEPT !.at = "pills"]
    /\ UNCHANGED <<keep_raw, raw_dir, cleaned_files, download_queue, unfinished_tasks,
                   download_futures, cleaning_threads, progress, stats_summary,
                   completed_count, total_downloaded, total_cleaned, total_errors>>
    /\ UNCHANGED <<segvars, batchvars, ratevars>>

\* one poison pill is put (lines 319-320)
PutPoisonPill ==
    /\ main_pc.at = "pills"
    /\ download_queue' = Append(download_queue, None)
    /\ unfinished_tasks' = unfinished_tasks + 1
    /\ main_pc' = [at |-> IF main_pc.pills + 1 = MaxCleaners THEN "thread_join" ELSE "pills",
                   pills |-> main_pc.pills + 1]
    /\ UNCHANGED <<keep_raw, raw_dir, cleaned_files, download_futures, cleaning_threads,
                   progress, stats_summary, completed_count, total_downloaded, total_cleaned,
                   total_errors>>
    /\ UNCHANGED <<segvars, batchvars, ratevars>>

threads_exited_never_waited(threads) == TRUE

\* t.join() has returned for every cleaning thread (lines 322-323)
threads_exited(threads) == \A t \in DOMAIN threads : threads[t].pc = "exited"

\* the cleaning threads are joined and the summary is printed (lines 322-363)
JoinThreads ==
    /\ main_pc.at = "thread_join"
    /\ threads_exited(cleaning_threads)
    /\ main_pc' = [main_pc EXCEPT !.at = "returned"]
    /\ UNCHANGED <<keep_raw, raw_dir, cleaned_files, download_queue, unfinished_tasks,
                   download_futures, cleaning_threads, progress, stats_summary,
                   completed_count, total_downloaded, total_cleaned, total_errors>>
    /\ UNCHANGED <<segvars, batchvars, ratevars>>

\* clean_worker: download_queue.get() returns an item; a poison pill ends the
\* thread (lines 230-247)
Get(t) ==
    /\ cleaning_threads[t].pc = "get"
    /\ download_queue # <<>>
    /\ download_queue' = Tail(download_queue)
    /\ IF Head(download_queue) = None
       THEN /\ unfinished_tasks' = unfinished_tasks - 1
            /\ cleaning_threads' = [cleaning_threads EXCEPT ![t].pc = "exited"]
       ELSE /\ cleaning_threads' =
                 [cleaning_threads EXCEPT ![t] = [pc |-> "clean", item |-> Head(download_queue)]]
            /\ UNCHANGED unfinished_tasks
    /\ UNCHANGED <<keep_raw, raw_dir, cleaned_files, download_futures, main_pc, progress,
                   stats_summary, completed_count, total_downloaded, total_cleaned,
                   total_errors>>
    /\ UNCHANGED <<segvars, batchvars, ratevars>>

\* clean_worker: the filing is cleaned, the counters are updated under
\* stats_lock, the progress line is printed and task_done is called
\* (lines 249-278). clean_and_delete_single_filing catches every Exception, so
\* the except branch of clean_worker (lines 270-275) is never taken. The 10-K
\* directory goes with its last filing (lines 123-125)
CleanFiling(t, rmtree_raises) ==
    LET c == cleaning_threads[t].item.cik
        f == cleaning_threads[t].item.accession
        r == clean_and_delete_single_filing(raw_dir[c].filings[f], keep_raw, rmtree_raises)
        left == [raw_dir[c].filings EXCEPT ![f] = IF r.removed THEN NoFile ELSE @]
    IN  /\ cleaning_threads[t].pc = "clean"
        /\ raw_dir' = [raw_dir EXCEPT ![c] = [exists |-> \E g \in Filings : left[g].exists,
                                              filings |-> left]]
        /\ cleaned_files' =
             [cleaned_files EXCEPT ![c][f] = IF r.cleaned = 1 THEN r.cleaned_file ELSE @]
        /\ completed_count' = completed_count + 1
        /\ stats_summary' = IF r.status = "ok"
                            THEN [stats_summary EXCEPT !.ok = @ + 1]
                            ELSE [stats_summary EXCEPT !.error = @ + 1]
        /\ total_cleaned' = total_cleaned + r.cleaned
        /\ total_errors' = total_errors + (IF r.status = "error" THEN 1 ELSE 0)
        /\ progress' = progress (+) SetToBag({[cik |-> c, accession |-> f, status |-> r.status,
                                                cleaned |-> r.cleaned, deleted |-> r.deleted]})
        /\ unfinished_tasks' = unfinished_tasks - 1
        /\ cleaning_threads' = [cleaning_threads EXCEPT ![t].pc = "get"]
        /\ UNCHANGED <<keep_raw, download_queue, download_futures, main_pc, total_downloaded>>
        /\ UNCHANGED <<segvars, batchvars, ratevars>>

DownloadNext ==
    \/ \E c \in CIKs : DownloadForCik(c)
    \/ \E c \in CIKs, f \in Filings : PutFiling(c, f)
    \/ \E c \in CIKs : DownloadWorkerReturns(c)
    \/ \E c \in CIKs : DownloadWorkerRaises(c)
    \/ \E c \in CIKs : CollectDownload(c)
    \/ \E c \in CIKs : CollectRaises(c)
    \/ ShutdownExecutor
    \/ QueueJoin
    \/ PutPoisonPill
    \/ JoinThreads
    \/ \E t \in 1..MaxCleaners : Get(t)
    \/ \E t \in 1..MaxCleaners, rmtree_raises \in BOOLEAN : CleanFiling(t, rmtree_raises)

DownloadSpec == DownloadInit /\ [][DownloadNext]_vars

(* --------------- edgar/rate_limiter.py: TokenBucketRateLimiter --------- *)

\* tokens are counted in halves: the 1.0 of self.tokens = 1.0 and of the
\* default of acquire (lines 44, 48)
ONE == 2

\* the last reading of time.monotonic()
MaxTime == 3

\* the greatest number of calls of acquire by one thread
MaxAcquires == 2

\* the threads that share the rate limiter
Threads == {"t1", "t2"}

lock_always_free(holders) == TRUE

\* self.lock can be taken (line 63)
lock_free(holders) == holders = {}

\* TokenBucketRateLimiter(rate, capacity) (lines 32-46): capacity defaults to
\* rate; no thread has called acquire
RateInit ==
    /\ FilingState(<<>>)
    /\ NoBatch
    /\ NoDownload
    /\ rate \in 1..2
    /\ \E capacity_arg \in {0, 1, ONE, 2 * ONE} :
         capacity = IF capacity_arg = 0 THEN rate ELSE capacity_arg
    /\ tokens = ONE
    /\ last_update = 0
    /\ lock = {}
    /\ monotonic = 0
    /\ callers = [t \in Threads |-> [pc |-> "idle", tokens |-> 0, calls |-> 0,
                                     granted |-> 0, deficit |-> 0, slept_from |-> 0]]

\* a thread calls acquire(n) (line 48)
Acquire(t, n) ==
    /\ callers[t].pc = "idle"
    /\ callers[t].calls < MaxAcquires
    /\ callers' = [callers EXCEPT ![t].pc = "while", ![t].tokens = n, ![t].calls = @ + 1]
    /\ UNCHANGED <<rate, capacity, tokens, last_update, lock, monotonic>>
    /\ UNCHANGED <<segvars, batchvars, downloadvars>>

\* with self.lock: the lock is taken (lines 62-63)
AcquireLock(t) ==
    /\ callers[t].pc = "while"
    /\ lock_free(lock)
    /\ lock' = lock \cup {t}
    /\ callers' = [callers EXCEPT ![t].pc = "refill"]
    /\ UNCHANGED <<rate, capacity, tokens, last_update, monotonic>>
    /\ UNCHANGED <<segvars, batchvars, downloadvars>>

\* the tokens are regenerated and compared with the request (lines 64-73)
Refill(t) ==
    LET elapsed == monotonic - last_update
        refilled == Min({capacity, tokens + elapsed * rate})
    IN  /\ callers[t].pc = "refill"
        /\ tokens' = refilled
        /\ last_update' = monotonic
        /\ callers' = [callers EXCEPT
                         ![t].pc = IF refilled >= callers[t].tokens THEN "consume" ELSE "deficit"]
        /\ UNCHANGED <<rate, capacity, lock, monotonic>>
        /\ UNCHANGED <<segvars, batchvars, downloadvars>>

\* the tokens are consumed, acquire returns and the lock is released
\* (lines 74-75)
Consume(t) ==
    /\ callers[t].pc = "consume"
    /\ tokens' = tokens - callers[t].tokens
    /\ lock' = lock \ {t}
    /\ callers' = [callers EXCEPT ![t].pc = "idle", ![t].tokens = 0,
                                  ![t].granted = @ + callers[t].tokens]
    /\ UNCHANGED <<rate, capacity, last_update, monotonic>>
    /\ UNCHANGED <<segvars, batchvars, downloadvars>>

\* the wait is computed, the lock is released and the thread goes to sleep
\* (lines 78-82); sleep_time is deficit / rate
Deficit(t) ==
    /\ callers[t].pc = "deficit"
    /\ lock' = lock \ {t}
    /\ callers' = [callers EXCEPT ![t].pc = "sleep",
                                  ![t].deficit = callers[t].tokens - tokens,
                                  ![t].slept_from = monotonic]
    /\ UNCHANGED <<rate, capacity, tokens, last_update, monotonic>>
    /\ UNCHANGED <<segvars, batchvars, downloadvars>>

\* time.sleep(sleep_time) returns, sleep_time or more after it was called
\* (line 82)
Wake(t) ==
    /\ callers[t].pc = "sleep"
    /\ (monotonic - callers[t].slept_from) * rate >= callers[t].deficit
    /\ callers' = [callers EXCEPT ![t].pc = "while", ![t].deficit = 0, ![t].slept_from = 0]
    /\ UNCHANGED <<rate, capacity, tokens, last_update, lock, monotonic>>
    /\ UNCHANGED <<segvars, batchvars, downloadvars>>

\* the monotonic clock advances
Tick ==
    /\ monotonic < MaxTime
    /\ monotonic' = monotonic + 1
    /\ UNCHANGED <<rate, capacity, tokens, last_update, lock, callers>>
    /\ UNCHANGED <<segvars, batchvars, downloadvars>>

RateNext ==
    \/ \E t \in Threads, n \in 1..(ONE + 1) : Acquire(t, n)
    \/ \E t \in Threads : AcquireLock(t)
    \/ \E t \in Threads : Refill(t)
    \/ \E t \in Threads : Consume(t)
    \/ \E t \in Threads : Deficit(t)
    \/ \E t \in Threads : Wake(t)
    \/ Tick

RateSpec == RateInit /\ [][RateNext]_vars

(* ------------------------ properties of the result -------------------- *)

\* item_segmentation_list has returned to print_items
Returned == pc \in {"writing", "done"}

\* the candidate _select_best_candidate passed to _append_orphans
SelectedCandidate == IF Len(list_lines) = 1 THEN list_lines[1] ELSE list_lines[best_i + 1]

StrictlyIncreasing(seq) ==
    \A i \in DOMAIN seq : i < Len(seq) => seq[i].item_line < seq[i + 1].item_line

LabelsOf(seq) == {seq[i].item_num : i \in DOMAIN seq}

LinesOf(seq) == {seq[i].item_line : i \in DOMAIN seq}

\* C1 (Monotonicity): whenever item_segmentation_list returns, the item_line
\* values of the returned sequence are strictly increasing from each entry to
\* the next.
C1_Monotonicity == Returned => StrictlyIncreasing(item_segmentation)

\* C2 (Uniqueness): whenever item_segmentation_list returns, no item_num occurs
\* in two entries of the returned sequence.
C2_Uniqueness ==
    Returned =>
        \A i, j \in DOMAIN item_segmentation :
            i # j => item_segmentation[i].item_num # item_segmentation[j].item_num

\* the fallback built the candidates, and a sequence of a candidate's entries
\* and at least one orphan was returned and sliced
C2_Witness ==
    /\ pc = "done"
    /\ fallback_called
    /\ Len(SelectedCandidate) >= 2
    /\ Len(item_segmentation) > Len(SelectedCandidate)

(* ------------------------- properties of the chunks -------------------- *)

\* the chunks that hold document line l
ChunksOf(l) == {n \in DOMAIN written : l \in written[n].lines}

\* chunk n is the chunk of entry n, and each chunk ends where the next starts,
\* the last one after the last line
ContiguousInOrder ==
    /\ Len(written) = Len(item_segmentation)
    /\ \A n \in DOMAIN written :
          /\ written[n].item_num = item_segmentation[n].item_num
          /\ written[n].start = item_segmentation[n].item_line
          /\ written[n].end = IF n < Len(written) THEN item_segmentation[n + 1].item_line
                              ELSE Len(text) + 1
          /\ written[n].lines = written[n].start..(written[n].end - 1)

OffsetOfLine(l) == chars_between(text, 1, l - 1)

\* the span of a candidate: the offset of its last entry's line minus the
\* offset of its first entry's line
SpanOf(cand) == OffsetOfLine(cand[Len(cand)].item_line) - OffsetOfLine(cand[1].item_line)

\* C4 (Span-maximizing selection): with two or more non-empty candidates the
\* selector picks a candidate of maximal span, whatever its round index, and
\* among the candidates of maximal span the one of lowest round index.
C4_SpanMaximizing ==
    (Returned /\ Len(list_lines) >= 2) =>
        /\ SubSeq(item_segmentation, 1, Len(list_lines[best_i + 1])) = list_lines[best_i + 1]
        /\ \A j \in DOMAIN list_lines :
              /\ SpanOf(list_lines[j]) <= SpanOf(list_lines[best_i + 1])
              /\ SpanOf(list_lines[j]) = SpanOf(list_lines[best_i + 1]) => best_i + 1 <= j

\* the candidate of a later round has the strictly larger span and is selected
C4_Witness ==
    /\ Returned
    /\ Len(list_lines) >= 2
    /\ best_i >= 1
    /\ SpanOf(list_lines[1]) < SpanOf(list_lines[best_i + 1])

(* ------------------------------ scenarios ------------------------------ *)

Entry(label, line) == [item_num |-> label, item_line |-> line]

\* C5 (Scenario 1): a document whose only headings are "Item 1. Business" at
\* line 5, "Item 1A. Risk Factors" at line 40 and "Item 2. Properties" at line
\* 120 is segmented into [(1,5), (1A,40), (2,120)] and sliced into the three
\* chunks [5,40), [40,120) and [120, N+1).
C5_Scenario1 ==
    (text \in Scenario1Docs /\ pc \in {"done", "failed"}) =>
        /\ pc = "done"
        /\ item_segmentation = <<Entry(<<"1">>, 5), Entry(<<"1", "A">>, 40), Entry(<<"2">>, 120)>>
        /\ Len(written) = 3
        /\ written[1].lines = 5..39
        /\ written[2].lines = 40..119
        /\ written[3].lines = 120..Len(text)

\* C6 (Scenario 2): with a table-of-contents pass at lines 3, 4, 5 and the body
\* pass at lines 50, 300, 900 the selector drops the table-of-contents candidate
\* and the SelectedSequence is [(1,50), (1A,300), (2,900)].
C6_Scenario2 ==
    (text \in Scenario2Docs /\ pc \in {"writing", "done", "failed"}) =>
        /\ pc # "failed"
        /\ item_segmentation = <<Entry(<<"1">>, 50), Entry(<<"1", "A">>, 300), Entry(<<"2">>, 900)>>

(* ---------------------------- orphan recovery -------------------------- *)

\* the rows of item_dict that carry the label
Occurrences(label) == {k \in DOMAIN item_dict : item_dict[k].item_num = label}

\* the labels that are not in the selected candidate and occur only after its
\* last entry
OrphanLabels ==
    {label \in LabelsOf(item_dict) :
        /\ label \notin LabelsOf(SelectedCandidate)
        /\ \A k \in Occurrences(label) :
              item_dict[k].item_line > SelectedCandidate[Len(SelectedCandidate)].item_line}

\* the positions of the label in the returned sequence
PositionsOf(label) == {i \in DOMAIN item_segmentation : item_segmentation[i].item_num = label}

\* C7 (Orphan recovery): a label that is not in the selected candidate and whose
\* occurrences in the HeadingList all lie after the candidate's last entry is in
\* the returned sequence exactly once, at the line of its first occurrence; the
\* orphans follow the candidate's entries, in document order.
C7_OrphanRecovery ==
    (Returned /\ SelectedCandidate # <<>>) =>
        /\ \A label \in OrphanLabels :
              /\ Cardinality(PositionsOf(label)) = 1
              /\ \A i \in PositionsOf(label) :
                    /\ i > Len(SelectedCandidate)
                    /\ item_segmentation[i].item_line =
                          Min({item_dict[k].item_line : k \in Occurrences(label)})
        /\ SubSeq(item_segmentation, 1, Len(SelectedCandidate)) = SelectedCandidate
        /\ \A i, j \in DOMAIN item_segmentation :
              (Len(SelectedCandidate) < i /\ i < j) =>
                  item_segmentation[i].item_line < item_segmentation[j].item_line

\* two labels are recovered as orphans, one of them met twice after the
\* candidate's last entry
C7_Witness ==
    /\ Returned
    /\ SelectedCandidate # <<>>
    /\ Cardinality(OrphanLabels) >= 2
    /\ \E label \in OrphanLabels : Cardinality(Occurrences(label)) >= 2

Label16 == <<"1", "6">>

\* the case of Scenario 3: every candidate is non-empty, "16" occurs once, after
\* the last entry of every candidate, and last_ele is below 16
Scenario3Case ==
    /\ pc \in {"writing", "done", "failed"}
    /\ list_lines # <<>>
    /\ ~any_empty(list_lines)
    /\ Cardinality(Occurrences(Label16)) = 1
    /\ \A c \in DOMAIN list_lines : \A k \in Occurrences(Label16) :
          item_dict[k].item_line > list_lines[c][Len(list_lines[c])].item_line
    /\ number_of_rounds(item_dict).last_ele < 16

NoUsableHeading ==
    \A k \in DOMAIN item_dict_builder(text) : listAllItems(item_dict_builder(text))[k] > 20

\* C9 (No usable headings is an error): when no line qualifies as a heading, or
\* every scanned heading has a numeric value above 20, item_segmentation_list
\* raises: the filing is counted as failed and no sequence is returned.
C9_NoUsableHeadingRaises ==
    (NoUsableHeading /\ pc # "start") =>
        /\ pc = "failed"
        /\ error = "ValueError"
        /\ filing_failed = 1
        /\ item_segmentation = <<>>
        /\ written = <<>>

\* a filing whose headings are all noise has failed
C9_Witness ==
    /\ NoUsableHeading
    /\ item_dict_builder(text) # <<>>
    /\ pc = "failed"

(* ------------------------- properties of the batch --------------------- *)

\* the filings of BatchDocs that item_segmentation_list segments and whose
\* chunk files can all be opened
SliceableDocs ==
    {d \in BatchDocs :
        /\ ~item_segmentation_list(d).raised
        /\ writable_prefix(item_segmentation_list(d).selected)
               = Len(item_segmentation_list(d).selected)}

\* the files a run on one filing alone writes into an empty output directory
FilesOf ==
    [d \in BatchDocs |->
        write_chunks({}, d, item_segmentation_list(d).selected,
                     Len(item_segmentation_list(d).selected))]

\* the filings of the batch that can be segmented and sliced
SliceableFilings ==
    {cf \in CIKs \X Filings :
        cleaned_dir[cf[1]].exists /\ cleaned_dir[cf[1]].filings[cf[2]] \in SliceableDocs}

\* once the summary is printed every filing that can be segmented and sliced has
\* its chunks in its output directory and is counted as completed
AllSliceableWritten ==
    driver_pc = "summary" =>
        /\ \A cf \in SliceableFilings :
              items_dir[cf[1]][cf[2]] =
                  [exists |-> TRUE, files |-> FilesOf[cleaned_dir[cf[1]].filings[cf[2]]]]
        /\ filings_completed = Cardinality(SliceableFilings)
        /\ collected = CIKs

\* C10 (Failure isolation): in a batch run a failure while segmenting or slicing
\* one filing never keeps another filing, of the same CIK or of another, from
\* being segmented and having its chunks written, and the batch always runs to
\* its summary.
C10_FailureIsolation == []AllSliceableWritten /\ <>(driver_pc = "summary")

\* the summary is reached after a CIK had a filing fail and a filing written,
\* while another CIK failed as a whole
C10_Witness ==
    /\ driver_pc = "summary"
    /\ \E c \in CIKs : task[c].filing_failed >= 1 /\ task[c].filing_completed >= 1
    /\ \E c \in CIKs : task[c].state = "raised"

(* ---------------------------- runs and workers ------------------------- *)

\* the outcome of the loop body on a filing whose output directory does not
\* exist yet
RunOnce ==
    [d \in BatchDocs |-> loop_body([exists |-> FALSE, files |-> {}], d, segmentation_of[d])]

\* the cleaned filing f of cik c
FilingOf(c, f) == cleaned_dir[c].filings[f]

\* the loop of print_items has been through filing f of cik c, in this run of
\* try_exercize or in the run before
Processed(c, f) ==
    /\ cleaned_dir[c].exists
    /\ \/ runs > 1
       \/ task[c].state \in {"running", "returned"} /\ f \notin task[c].todo

\* C11 (Determinism): however often the batch has run on the same cleaned
\* filings, the output directory of a processed filing holds exactly the chunks
\* one run writes into a fresh directory, with the same labels, boundaries and
\* lines, and every run of print_items returns the same counts.
C11_Determinism ==
    \A c \in CIKs :
        /\ \A f \in Filings :
              Processed(c, f) => items_dir[c][f] = RunOnce[FilingOf(c, f)].dir
        /\ task[c].state = "returned" =>
              /\ task[c].filing_completed =
                    Cardinality({f \in Filings : ~RunOnce[FilingOf(c, f)].failed})
              /\ task[c].filing_failed =
                    Cardinality({f \in Filings : RunOnce[FilingOf(c, f)].failed})

\* the second run has ended on a cik with a filing sliced into two chunks and a
\* filing whose slicing failed after a chunk was written
C11_Witness ==
    /\ runs = 2
    /\ driver_pc = "summary"
    /\ \E c \in CIKs :
          /\ task[c].state = "returned"
          /\ \E f \in Filings :
                ~RunOnce[FilingOf(c, f)].failed /\ Cardinality(items_dir[c][f].files) >= 2
          /\ \E f \in Filings :
                RunOnce[FilingOf(c, f)].failed /\ items_dir[c][f].files # {}

\* a step changes the output directory of filing f of cik c only as a turn of
\* the task of c on f, and leaves in it what one run on f alone writes
OwnTurnOnly(c, f) ==
    items_dir'[c][f] # items_dir[c][f] =>
        /\ task[c].state = "running"
        /\ f \in task[c].todo
        /\ f \notin task'[c].todo
        /\ items_dir'[c][f] = RunOnce[FilingOf(c, f)].dir

\* C12 (Worker-count independence): for every worker count and every
\* interleaving of the tasks, the files of a filing are written by the task of
\* its own cik only, and they are the chunks a run on that filing alone writes:
\* what a sequential single-worker run leaves.
C12_WorkerCountIndependence ==
    [][\A c \in CIKs, f \in Filings : OwnTurnOnly(c, f)]_vars

\* two workers are in their loops at the same time, each has written chunks
C12_Witness ==
    /\ max_workers = 2
    /\ \A c \in CIKs :
          /\ task[c].state = "running"
          /\ task[c].todo # {}
          /\ \E f \in Filings \ task[c].todo : items_dir[c][f].files # {}

(* --------------------------- slice ranges ------------------------------ *)

\* the boundary after entry n: the line of the next entry, N + 1 after the last
NextBoundary(n) ==
    IF n < Len(item_segmentation) THEN item_segmentation[n + 1].item_line ELSE Len(text) + 1

\* the label the scanner reads on line l of the document (<<>> when none)
ScannedLabel(l) ==
    LET rest == HEAD_RE(normalize_ws(text[l]))
    IN  IF rest = <<>> THEN <<>> ELSE item_num_of(rest)

\* C13 (Slice ranges): the chunk print_items writes for entry n of the
\* SelectedSequence carries the label of entry n and holds exactly the
\* document lines l with start_n <= l < start_(n+1), where the boundary after
\* the last entry is N + 1; start_n is the line on which the scanner read the
\* label, and once the loop has ended the last chunk holds every line from
\* its start through line N.
C13_SliceRanges ==
    /\ Len(written) <= Len(item_segmentation)
    /\ \A n \in DOMAIN written :
          /\ written[n].item_num = item_segmentation[n].item_num
          /\ written[n].start = item_segmentation[n].item_line
          /\ written[n].end = NextBoundary(n)
          /\ written[n].lines =
                {l \in 1..Len(text) : item_segmentation[n].item_line <= l /\ l < NextBoundary(n)}
          /\ written[n].start \in 1..Len(text)
          /\ ScannedLabel(written[n].start) = written[n].item_num
    /\ (pc = "done" /\ item_segmentation # <<>>) =>
          written[Len(written)].lines =
              item_segmentation[Len(item_segmentation)].item_line..Len(text)

\* a filing sliced into two chunks, the first a heading with body lines under
\* it, the last running to the last line of the document
C13_Witness ==
    /\ pc = "done"
    /\ Len(written) = 2
    /\ Cardinality(written[1].lines) >= 2
    /\ written[1].lines \cap written[2].lines = {}
    /\ Len(text) \in written[2].lines

(* -------------------- the single-filing tool's chunks ------------------- *)

\* C14 (Terminal boundary in the single-filing tool): once the tool has saved
\* every chunk, the chunk of the last SelectedSequence entry holds every line
\* from that entry's line through line N, whatever the length N of the
\* document.
C14_TerminalBoundary ==
    (pc = "done" /\ item_segmentation # <<>>) =>
        \A l \in item_segmentation[Len(item_segmentation)].item_line..Len(text) :
            l \in written[Len(written)].lines

(* ---------------------- properties of the candidates ------------------- *)

\* C15 (Candidate invariant): in every Candidate of the CandidateSet handed
\* to the selector, built by the primary builder or by
\* fallback_build_candidates, the line numbers are strictly increasing from
\* each entry to the next.
C15_CandidateInvariant ==
    pc = "candidates" =>
        \A k \in DOMAIN list_lines : StrictlyIncreasing(list_lines[k])

\* C16 (Non-overlapping chunks): the line ranges of the chunks print_items
\* writes for two different entries of a SelectedSequence never share a
\* document line.
C16_NonOverlappingChunks ==
    \A m, n \in DOMAIN written :
        m # n => written[m].lines \cap written[n].lines = {}

\* the step in which _build_candidates returns after the primary loop
BuildCandidatesReturns == pc = "primary" /\ pc' = "candidates"

\* C17 (Fallback trigger): when _build_candidates returns, the CandidateSet is
\* the primary one, unchanged, if every round's candidate is non-empty, and it
\* is the output of fallback_build_candidates if some round's candidate is
\* empty; no other step invokes the fallback.
C17_FallbackTrigger ==
    [][/\ BuildCandidatesReturns =>
             IF \A k \in DOMAIN list_lines : Len(list_lines[k]) > 0
             THEN list_lines' = list_lines /\ fallback_called' = FALSE
             ELSE /\ fallback_called' = TRUE
                  /\ list_lines' = fallback_rounds(tableContent, item_dict, rounds, rounds, <<>>, 0)
       /\ ~BuildCandidatesReturns =>
             fallback_called' = fallback_called /\ (pc # "start" => list_lines' = list_lines)]_vars

\* the second of two primary rounds was empty and the fallback's CandidateSet,
\* with no empty candidate, was returned in its place
C17_Witness ==
    /\ pc = "candidates"
    /\ fallback_called
    /\ Len(list_lines) = 2
    /\ \A k \in DOMAIN list_lines : Len(list_lines[k]) > 0
    /\ primary_rounds(tableContent, item_dict, rounds, <<>>, 0)[1] # <<>>
    /\ primary_rounds(tableContent, item_dict, rounds, <<>>, 0)[2] = <<>>

(* ---------------------- the replay rules of the builders --------------- *)

\* the HeadingList entries with the label the loop is at and a line number
\* greater than the cursor
Eligible ==
    {k \in DOMAIN item_dict :
        /\ item_dict[k].item_num = tableContent[loop_itemTC]
        /\ item_dict[k].item_line > loop_last_ele}

\* the first eligible entry in document order
FirstEligible ==
    CHOOSE k \in Eligible : \A j \in Eligible : item_dict[k].item_line <= item_dict[j].item_line

\* the number of HeadingList entries with the label the loop is at
LabelCount == Cardinality({k \in DOMAIN item_dict : item_dict[k].item_num = tableContent[loop_itemTC]})

\* a step of the loop named by p from one canonical label to the next
LabelStep(p) == pc = p /\ pc' = p /\ loop_itemTC' = loop_itemTC + 1

\* the match appended in a label step is the first eligible entry; with no
\* eligible entry nothing is appended and the cursor stays
FirstMatchAppended ==
    IF Eligible = {}
    THEN loop_lines' = loop_lines /\ loop_last_ele' = loop_last_ele
    ELSE loop_lines' = Append(loop_lines, item_dict[FirstEligible])

C19_PrimaryReplayRule ==
    [][/\ (pc = "start" /\ pc' = "primary_loop") =>
             loop_last_ele' = 0 /\ loop_itemTC' = 1 /\ loop_lines' = <<>>
       /\ LabelStep("primary_loop") =>
             /\ FirstMatchAppended
             /\ Eligible # {} => loop_last_ele' = item_dict[FirstEligible].item_line
       /\ (pc = "primary_loop" /\ pc' = "primary_loop" /\ ~LabelStep("primary_loop")) =>
             /\ loop_itemTC = Len(tableContent) + 1
             /\ loop_itemTC' = 1
             /\ list_lines' = Append(list_lines, loop_lines)
             /\ loop_last_ele' = loop_last_ele
       /\ (pc = "primary_loop" /\ pc' = "candidates") =>
             list_lines' = primary_rounds(tableContent, item_dict, rounds, <<>>, 0)]_vars

\* the second primary round, entered with the cursor the first round left, has
\* skipped a label and then matched one beyond the cursor
C19_Witness ==
    /\ pc = "primary_loop"
    /\ Len(list_lines) = 1
    /\ list_lines[1] # <<>>
    /\ loop_lines # <<>>
    /\ loop_itemTC - 1 > Len(loop_lines)
    /\ loop_lines[1].item_line > list_lines[1][Len(list_lines[1])].item_line
    /\ loop_last_ele = loop_lines[Len(loop_lines)].item_line

(* ------------------------- failures of the selector -------------------- *)

\* C20 (The selector fails only on an empty CandidateSet): for every non-empty
\* CandidateSet produced by either builder, _select_best_candidate returns a
\* SelectedSequence and does not raise.
C20_RaisesOnlyOnEmptyCandidateSet ==
    (pc = "failed" /\ error = "IndexError") => list_lines = <<>>

(* ---------------------- empty sets, empty candidates ------------------- *)

\* item_segmentation_list is past _build_candidates
PastBuildCandidates == pc \in {"candidates", "writing", "done", "failed"} /\ error # "ValueError"

\* C21 (Empty CandidateSet is surfaced): whenever the estimated round count is
\* 0 the CandidateSet has no candidate at all, item_segmentation_list raises
\* instead of returning a SelectedSequence, and print_items records the filing
\* as failed, with no chunk written.
C21_EmptyCandidateSetSurfaced ==
    (PastBuildCandidates /\ rounds = 0) =>
        /\ list_lines = <<>>
        /\ pc \in {"candidates", "failed"}
        /\ item_segmentation = <<>>
        /\ written = <<>>
        /\ filing_completed = 0
        /\ pc = "failed" => error = "IndexError" /\ filing_failed = 1

\* a filing with headings whose round count is 0 has been recorded as failed
C21_Witness ==
    /\ pc = "failed"
    /\ error = "IndexError"
    /\ rounds = 0
    /\ item_dict # <<>>
    /\ filing_failed = 1

(* ------------------------- the round-count estimate -------------------- *)

\* number_of_rounds has returned for the HeadingList in item_dict
Estimated == pc \in {"primary", "candidates", "writing", "done"} \/ (pc = "failed" /\ error # "ValueError")

\* the numeric values of a HeadingList that are not above the cutoff
KeptValues(values) == {k \in DOMAIN values : values[k] <= NOISE_CUTOFF}

\* the occurrence counts of max_num, max_num - 1, max_num - 2 and max_num - 3
FourCounts(values) ==
    LET kept == KeptValues(values)
        max_num == CHOOSE m \in {values[k] : k \in kept} : \A k \in kept : values[k] <= m
    IN  [i \in 1..4 |-> Cardinality({k \in kept : values[k] = max_num - (i - 1)})]

\* how many of the four counts equal the i-th
Frequency(four, i) == Cardinality({j \in 1..4 : four[j] = four[i]})

\* the most frequent of the four counts, the one met first among equals
ModeMetFirst(four, r) ==
    \E i \in 1..4 :
        /\ r = four[i]
        /\ \A j \in 1..4 : Frequency(four, j) <= Frequency(four, i)
        /\ \A j \in 1..(i - 1) : four[j] # four[i] => Frequency(four, j) < Frequency(four, i)

\* C22 (Round-count estimate): for a non-empty HeadingList with a numeric
\* value not above 20, the round count is the most frequent value among the
\* occurrence counts of max_num, max_num - 1, max_num - 2 and max_num - 3 (0
\* for a number that does not occur); among equally frequent values it is the
\* one met first in that order.
C22_RoundCountEstimate ==
    Estimated =>
        LET values == listAllItems(item_dict)
        IN  /\ KeptValues(values) # {}
            /\ ModeMetFirst(FourCounts(values), rounds)

\* two of the four counts are 1 and two are 0: the estimate is the 1 met first
C22_Witness ==
    /\ Estimated
    /\ FourCounts(listAllItems(item_dict)) = <<1, 1, 0, 0>>
    /\ rounds = 1

\* the leading run of digits of a label
NumericPrefix(label) ==
    LET rest == {i \in DOMAIN label : ~isdigit(label[i])}
    IN  IF rest = {} THEN label
        ELSE SubSeq(label, 1, (CHOOSE i \in rest : \A j \in rest : i <= j) - 1)

\* C23 (Numeric value of a label): for every scanned label the number the
\* RoundEstimator uses is the integer formed by the label's leading run of
\* digits, and the values above 20 are discarded before the counts are taken.
C23_NumericPrefix ==
    Estimated =>
        LET values == [k \in DOMAIN item_dict |-> int(NumericPrefix(item_dict[k].item_num))]
        IN  /\ listAllItems(item_dict) = values
            /\ ModeMetFirst(FourCounts(values), rounds)

(* ------------------------------ the scanner ---------------------------- *)

\* the lines of the document on which the scanner reads a label
QualifyingLines == {l \in DOMAIN text : ScannedLabel(l) # <<>>}

\* the qualifying line before l, 0 when l is the first
PreviousQualifying(l) ==
    LET before == {m \in QualifyingLines : m < l}
    IN  IF before = {} THEN 0 ELSE CHOOSE m \in before : \A j \in before : j <= m

\* l opens a run of consecutive equal labels (compared case-insensitively)
OpensRun(l) ==
    \/ PreviousQualifying(l) = 0
    \/ str_lower(ScannedLabel(PreviousQualifying(l))) # str_lower(ScannedLabel(l))

\* C24 (Scan-time dedup): the HeadingList has one entry, with the label read
\* on it, for exactly the qualifying lines that open a run of consecutive
\* equal labels, in document order; so its line numbers are strictly
\* increasing and no two adjacent entries have the same label.
C24_ScanTimeDedup ==
    Estimated =>
        /\ LinesOf(item_dict) = {l \in QualifyingLines : OpensRun(l)}
        /\ \A k \in DOMAIN item_dict :
              item_dict[k].item_num = ScannedLabel(item_dict[k].item_line)
        /\ StrictlyIncreasing(item_dict)
        /\ \A k \in DOMAIN item_dict :
              k < Len(item_dict) =>
                  str_lower(item_dict[k].item_num) # str_lower(item_dict[k + 1].item_num)

\* a run of two equal labels was collapsed between two other entries
C24_Witness ==
    /\ Estimated
    /\ Len(item_dict) >= 2
    /\ \E l \in QualifyingLines :
          /\ ~OpensRun(l)
          /\ l \notin LinesOf(item_dict)
          /\ \E k \in DOMAIN item_dict : item_dict[k].item_line > l

(* -------------------------- failed segmentations ----------------------- *)

\* the step is the turn of print_items(c) on filing f
TurnOn(c, f) == task[c].state = "running" /\ f \in task[c].todo /\ f \notin task'[c].todo

\* C25 (A failed segmentation leaves the output untouched): in the turn of
\* print_items on a filing for which item_segmentation_list raises, no chunk
\* file is written and no output directory is made for it, the filing is
\* counted as failed, and the outputs of every other filing are unchanged.
C25_FailedSegmentationWritesNothing ==
    [][\A c \in CIKs, f \in Filings :
          (cleaned_dir[c].exists /\ TurnOn(c, f) /\ segmentation_of[FilingOf(c, f)].raised) =>
              /\ items_dir' = items_dir
              /\ task'[c].filing_failed = task[c].filing_failed + 1
              /\ task'[c].filing_completed = task[c].filing_completed]_vars

\* in a first run, a filing whose segmentation raised has no output directory
\* while the other filing of the same cik has its chunks
C25_Witness ==
    /\ runs = 1
    /\ \E c \in CIKs, f, g \in Filings :
          /\ cleaned_dir[c].exists
          /\ task[c].state = "running"
          /\ task[c].todo = {}
          /\ segmentation_of[FilingOf(c, f)].raised
          /\ ~items_dir[c][f].exists
          /\ task[c].filing_failed = 1
          /\ items_dir[c][g].files # {}

\* C26 (Rounds are disjoint in the primary builder): in the CandidateSet the
\* primary loop builds, every entry of a later round has a line number
\* greater than every entry of an earlier round, so no HeadingMatch belongs to
\* two candidates.
C26_PrimaryRoundsDisjoint ==
    pc = "primary" =>
        \A j, k \in DOMAIN list_lines :
            j < k =>
                /\ \A a \in LinesOf(list_lines[j]), b \in LinesOf(list_lines[k]) : a < b
                /\ Range(list_lines[j]) \cap Range(list_lines[k]) = {}

\* two primary rounds, both with entries, the second one beyond the first
C26_Witness ==
    /\ pc = "primary"
    /\ Len(list_lines) = 2
    /\ Len(list_lines[1]) >= 2
    /\ Len(list_lines[2]) >= 2

\* C27 (Silent empty result): when the CandidateSet is exactly one candidate
\* and that candidate is empty, item_segmentation_list returns an empty
\* SelectedSequence without raising and without appending an orphan, and
\* print_items writes no chunk yet counts the filing as completed.
C27_SilentEmptyResult ==
    (PastBuildCandidates /\ list_lines = <<<<>>>>) =>
        /\ pc # "failed"
        /\ error = ""
        /\ item_segmentation = <<>>
        /\ written = <<>>
        /\ filing_failed = 0
        /\ pc = "done" => filing_completed = 1

\* a filing with two scanned labels, neither in the canonical list, and one
\* round: nothing was written and the filing counts as completed
C27_Witness ==
    /\ pc = "done"
    /\ list_lines = <<<<>>>>
    /\ rounds = 1
    /\ Len(item_dict) >= 2
    /\ written = <<>>
    /\ filing_completed = 1

(* --------------------- the raw filings and the queue ------------------- *)

\* the accession directory of filing f of c is removed by this step
RawRemoved(c, f) == raw_dir[c].filings[f].exists /\ ~raw_dir'[c].filings[f].exists

\* a cleaning thread finishes clean_and_delete_single_filing on filing f of c
CleanedBy(t, c, f) ==
    /\ cleaning_threads[t].pc = "clean"
    /\ cleaning_threads'[t].pc = "get"
    /\ cleaning_threads[t].item = [cik |-> c, accession |-> f]

\* C28: a raw accession directory is removed only if keep_raw is false, the
\* cleaned file has been written and verify_cleaned_file returns true for it;
\* when clean_and_delete_single_filing ends with keep_raw true, with no
\* cleaned file written or with a cleaned file that fails the verification,
\* the raw directory is as it was
C28_RawDeletionOnlyAfterVerification ==
    [][\A c \in CIKs, f \in Filings :
         /\ RawRemoved(c, f) =>
              /\ ~keep_raw
              /\ cleaned_files'[c][f].exists
              /\ verify_cleaned_file(cleaned_files'[c][f])
              /\ \E t \in 1..MaxCleaners : CleanedBy(t, c, f)
         /\ \A t \in 1..MaxCleaners :
              (/\ CleanedBy(t, c, f)
               /\ \/ keep_raw
                  \/ cleaned_files'[c][f] = cleaned_files[c][f]
                  \/ ~verify_cleaned_file(cleaned_files'[c][f]))
              => raw_dir'[c].filings[f] = raw_dir[c].filings[f]]_vars

\* a raw directory has been removed after its cleaned file passed, and another
\* is kept beside a cleaned file that failed the verification
C28_Witness ==
    /\ ~keep_raw
    /\ \E c \in CIKs, f \in Filings :
         /\ ~raw_dir[c].filings[f].exists
         /\ verify_cleaned_file(cleaned_files[c][f])
         /\ [cik |-> c, accession |-> f, status |-> "ok", cleaned |-> 1, deleted |-> 1]
              \in BagToSet(progress)
    /\ \E c \in CIKs, f \in Filings :
         /\ raw_dir[c].filings[f].exists
         /\ cleaned_files[c][f].exists
         /\ ~verify_cleaned_file(cleaned_files[c][f])
         /\ [cik |-> c, accession |-> f, status |-> "error", cleaned |-> 1, deleted |-> 0]
              \in BagToSet(progress)

\* the filings of c waiting in download_queue
Waiting(c) == {i \in DOMAIN download_queue : download_queue[i].cik = c}

\* the cleaning threads that hold a filing of c
Cleaning(c) ==
    {t \in 1..MaxCleaners : cleaning_threads[t].pc = "clean" /\ cleaning_threads[t].item.cik = c}

\* the number of progress lines printed for filing f of c
LinesPrinted(c, f) ==
    LET printed == {l \in BagToSet(progress) : l.cik = c /\ l.accession = f}
    IN  BagCardinality([l \in printed |-> CopiesIn(l, progress)])

\* the number of progress lines printed for the filings of c
FilingsCleaned(c) == Cardinality({f \in Filings : LinesPrinted(c, f) > 0})

\* C29: a filing put on the queue is in the queue, with exactly one cleaning
\* thread, or processed, and never processed twice; download_clean_delete
\* returns only when every filing put on the queue has been processed once,
\* the queue is empty, every cleaning thread has taken a poison pill and has
\* exited
C29_ProducerConsumerCompletion ==
    /\ \A c \in CIKs :
         /\ \A f \in Filings : LinesPrinted(c, f) <= 1
         /\ download_futures[c].filings_added
              = Cardinality(Waiting(c)) + Cardinality(Cleaning(c)) + FilingsCleaned(c)
    /\ \A t, u \in 1..MaxCleaners :
         (/\ t # u
          /\ cleaning_threads[t].pc = "clean"
          /\ cleaning_threads[u].pc = "clean")
         => cleaning_threads[t].item # cleaning_threads[u].item
    /\ main_pc.at = "returned" =>
         /\ \A c \in CIKs : download_futures[c].state = "collected"
         /\ \A c \in CIKs : FilingsCleaned(c) = download_futures[c].filings_added
         /\ completed_count = total_downloaded
         /\ download_queue = <<>>
         /\ unfinished_tasks = 0
         /\ main_pc.pills = MaxCleaners
         /\ \A t \in 1..MaxCleaners : cleaning_threads[t].pc = "exited"

\* download_clean_delete has returned after the filings of both ciks, three or
\* more, were cleaned
C29_Witness ==
    /\ main_pc.at = "returned"
    /\ \A c \in CIKs : FilingsCleaned(c) > 0
    /\ BagCardinality(progress) >= 3
    /\ \A t \in 1..MaxCleaners : cleaning_threads[t].pc = "exited"

(* --------------------------- the rate limiter -------------------------- *)

RECURSIVE GrantedTo(_)
\* the tokens acquire has granted to the threads of S
GrantedTo(S) ==
    IF S = {} THEN 0
    ELSE LET t == CHOOSE x \in S : TRUE
         IN  callers[t].granted + GrantedTo(S \ {t})

\* the balance is never negative; the thread past the refill holds the lock,
\* alone, and the balance it sees is at most capacity and, where it is about
\* to consume, at least its request; the tokens granted and the balance were
\* all put in the bucket: ONE at the start and rate per tick up to last_update
TokenAccounting ==
    /\ tokens >= 0
    /\ Cardinality(lock) <= 1
    /\ \A t \in Threads :
         /\ t \in lock <=> callers[t].pc \in {"refill", "consume", "deficit"}
         /\ callers[t].pc \in {"consume", "deficit"} => tokens <= capacity
         /\ callers[t].pc = "consume" => tokens >= callers[t].tokens
    /\ tokens + GrantedTo(Threads) <= ONE + rate * last_update

\* a refill does not raise the balance above capacity; acquire(n) returns in a
\* step that takes exactly n from a balance of n or more, by the holder of the
\* lock, and nothing is granted in any other step
TokenStep ==
    \A t \in Threads :
      /\ (callers[t].pc = "refill" /\ callers'[t].pc # "refill") =>
           /\ tokens' <= capacity
           /\ tokens' >= tokens \/ tokens' = capacity
      /\ (callers[t].pc # "idle" /\ callers'[t].pc = "idle") =>
           /\ lock = {t}
           /\ tokens >= callers[t].tokens
           /\ tokens' = tokens - callers[t].tokens
           /\ callers'[t].granted = callers[t].granted + callers[t].tokens
           /\ \A u \in Threads \ {t} : callers'[u] = callers[u]
      /\ callers'[t].granted # callers[t].granted =>
           (callers[t].pc = "consume" /\ callers'[t].pc = "idle")

\* C30: under every interleaving of the threads calling acquire(n), the token
\* balance is never negative, a refill never raises it above capacity, and
\* acquire returns only by deducting exactly n, under the lock, from a balance
\* of at least n, so that the tokens granted never exceed the tokens the
\* bucket was given
C30_TokenAccounting == []TokenAccounting /\ [][TokenStep]_vars

\* both threads were granted tokens, one of them after it slept for a refill,
\* and the bucket is empty
C30_Witness ==
    /\ \A t \in Threads : callers[t].granted > 0 /\ callers[t].pc = "idle"
    /\ \E t \in Threads : callers[t].calls = MaxAcquires /\ callers[t].granted >= 2 * ONE
    /\ tokens = 0
    /\ last_update > 0

====
